---------------------------- MODULE Spec2Model ----------------------------
(***************************************************************************)
(* A model of the URL parser of rust-url (url/src/parser.rs) together with *)
(* the part of the percent-encoding codec it uses                          *)
(* (percent_encoding/src/lib.rs).                                          *)
(*                                                                         *)
(* Text is a sequence of ASCII code points (integers).  Offsets into a     *)
(* string are 0-based byte offsets, as in the source; Slice(s, a, b) is    *)
(* the source's s[a..b].  An Option<T> is a sequence of length 0 (None) or *)
(* 1 (Some).  Only ASCII input is modelled, so a char is one byte.         *)
(***************************************************************************)
EXTENDS Integers, Sequences, FiniteSets, TLC

(***************************************************************************)
(* Characters the parser names.                                            *)
(***************************************************************************)
TAB == 9
LF == 10
CR == 13
SPACE == 32
HASH == 35
PERCENT == 37
PLUS == 43
MINUS == 45
DOT == 46
SLASH == 47
COLON == 58
QUESTION == 63
AT == 64
BACKSLASH == 92
PIPE == 124

Digits == 48..57
UpperAlpha == 65..90
LowerAlpha == 97..122

None == <<>>
Some(x) == <<x>>

\* Rust's `let x = v;` followed by the statements F that use x: v is
\* computed once and F reads it as x
Let(v, F(_)) == F(v)

(***************************************************************************)
(* String helpers (Rust's str API on byte offsets).                        *)
(***************************************************************************)
Slice(s, a, b) == SubSeq(s, a + 1, b)
SliceFrom(s, a) == SubSeq(s, a + 1, Len(s))
Truncate(s, n) == SubSeq(s, 1, n)
StartsWith(s, p) == Len(s) >= Len(p) /\ SubSeq(s, 1, Len(p)) = p
EndsWithChar(s, c) == Len(s) > 0 /\ s[Len(s)] = c
\* str::rfind(ch): Some(0-based offset of the last occurrence) or None
RFind(s, c) ==
    LET hits == {i \in 1..Len(s) : s[i] = c}
    IN  IF hits = {} THEN None
        ELSE Some((CHOOSE i \in hits : \A j \in hits : j <= i) - 1)

\* str::trim_start_matches(ch)
RECURSIVE TrimStartMatches(_, _)
TrimStartMatches(s, c) ==
    IF Len(s) > 0 /\ Head(s) = c THEN TrimStartMatches(Tail(s), c) ELSE s

(***************************************************************************)
(* Character classes.                                                      *)
(***************************************************************************)
c0_control_or_space(c) == c <= SPACE
ascii_tab_or_new_line(c) == c \in {TAB, LF, CR}
ascii_alpha(c) == c \in UpperAlpha \/ c \in LowerAlpha
is_ascii_hexdigit(c) == c \in Digits \/ c \in 65..70 \/ c \in 97..102
to_ascii_lowercase(c) == IF c \in UpperAlpha THEN c + 32 ELSE c

\* ASCII part of is_url_code_point
is_url_code_point(c) ==
    \/ c \in LowerAlpha \/ c \in UpperAlpha \/ c \in Digits
    \/ c \in {33, 36, 38, 39, 40, 41, 42, PLUS, 44, MINUS, DOT, SLASH, COLON,
              59, 61, QUESTION, AT, 95, 126}

(***************************************************************************)
(* AsciiSet and the percent-encode sets of the parser.                     *)
(***************************************************************************)
CONTROLS == (0..31) \cup {127}
FRAGMENT == CONTROLS \cup {SPACE, 34, 60, 62, 96}
PATH == FRAGMENT \cup {HASH, QUESTION, 123, 125}
USERINFO == PATH \cup {SLASH, COLON, 59, 61, AT, 91, BACKSLASH, 93, 94, PIPE}
QUERY == CONTROLS \cup {SPACE, 34, HASH, 60, 62}
SPECIAL_QUERY == QUERY \cup {39}

should_percent_encode(set, b) == b >= 128 \/ b \in set

HexDigit(n) == IF n < 10 THEN 48 + n ELSE 55 + n

\* the three bytes "%HH" of ENC_TABLE
percent_encode_byte(b) == <<PERCENT, HexDigit(b \div 16), HexDigit(b % 16)>>

\* percent_encode, but a byte from 0x80 on is encoded only when the set holds it
RECURSIVE percent_encode_AsciiOnly(_, _)
percent_encode_AsciiOnly(bytes, set) ==
    IF bytes = <<>> THEN <<>>
    ELSE (IF Head(bytes) \in set
          THEN percent_encode_byte(Head(bytes))
          ELSE <<Head(bytes)>>) \o percent_encode_AsciiOnly(Tail(bytes), set)

\* the concatenation of the items of percent_encode(bytes, set)
RECURSIVE percent_encode(_, _)
percent_encode(bytes, set) ==
    IF bytes = <<>> THEN <<>>
    ELSE (IF should_percent_encode(set, Head(bytes))
          THEN percent_encode_byte(Head(bytes))
          ELSE <<Head(bytes)>>) \o percent_encode(Tail(bytes), set)

utf8_percent_encode(text, set) == percent_encode(text, set)

(***************************************************************************)
(* Input: a cursor over the remaining source text; every advance skips     *)
(* tab, LF and CR.  The cursor is the remaining text itself.               *)
(***************************************************************************)
RECURSIVE TrimStart(_)
TrimStart(s) ==
    IF Len(s) > 0 /\ c0_control_or_space(Head(s)) THEN TrimStart(Tail(s)) ELSE s

RECURSIVE TrimEnd(_)
TrimEnd(s) ==
    IF Len(s) > 0 /\ c0_control_or_space(s[Len(s)])
    THEN TrimEnd(SubSeq(s, 1, Len(s) - 1)) ELSE s

\* new_trim_c0_control_and_space, but the tab and newline test reads
\* original_input
new_trim_c0_control_and_space_Untrimmed(original_input, has_vfn) ==
    LET input == TrimEnd(TrimStart(original_input))
    IN  [input |-> input,
         viol  |-> IF has_vfn
                   THEN (IF Len(input) < Len(original_input)
                         THEN {"C0SpaceIgnored"} ELSE {})
                        \cup
                        (IF \E i \in 1..Len(original_input) : ascii_tab_or_new_line(original_input[i])
                         THEN {"TabOrNewlineIgnored"} ELSE {})
                   ELSE {}]

\* Input::new_trim_c0_control_and_space: the trimmed text and the violations
new_trim_c0_control_and_space(original_input, has_vfn) ==
    LET input == TrimEnd(TrimStart(original_input))
    IN  [input |-> input,
         viol  |-> IF has_vfn
                   THEN (IF Len(input) < Len(original_input)
                         THEN {"C0SpaceIgnored"} ELSE {})
                        \cup
                        (IF \E i \in 1..Len(input) : ascii_tab_or_new_line(input[i])
                         THEN {"TabOrNewlineIgnored"} ELSE {})
                   ELSE {}]

RECURSIVE SkipIgnored(_)
SkipIgnored(s) ==
    IF Len(s) > 0 /\ ascii_tab_or_new_line(Head(s)) THEN SkipIgnored(Tail(s)) ELSE s

\* Input::split_first / Iterator::next: (Option<char>, remaining)
split_first(input) ==
    LET s == SkipIgnored(input)
    IN  IF s = <<>> THEN [c |-> None, rest |-> <<>>]
        ELSE [c |-> Some(Head(s)), rest |-> Tail(s)]

is_empty(input) == split_first(input).c = None

\* Input::split_prefix(&str): Option<Input>
RECURSIVE split_prefix(_, _)
split_prefix(input, p) ==
    IF p = <<>> THEN Some(input)
    ELSE LET f == split_first(input)
         IN  IF f.c = Some(Head(p)) THEN split_prefix(f.rest, Tail(p)) ELSE None

starts_with(input, p) == split_prefix(input, p) # None

\* Input::count_matching with the predicate |c| matches!(c, '/' | '\\')
RECURSIVE count_matching_slashes(_)
count_matching_slashes(input) ==
    LET f == split_first(input)
    IN  IF f.c # None /\ f.c[1] \in {SLASH, BACKSLASH}
        THEN LET r == count_matching_slashes(f.rest)
             IN  [count |-> r.count + 1, rest |-> r.rest]
        ELSE [count |-> 0, rest |-> input]

\* input.clone().take_while(|c| matches!(c, '/' | '\\')).collect::<String>()
RECURSIVE take_while_slashes(_)
take_while_slashes(input) ==
    LET f == split_first(input)
    IN  IF f.c # None /\ f.c[1] \in {SLASH, BACKSLASH}
        THEN <<f.c[1]>> \o take_while_slashes(f.rest)
        ELSE <<>>

(***************************************************************************)
(* Windows drive letters.                                                  *)
(***************************************************************************)
starts_with_windows_drive_letter(s) ==
    /\ Len(s) >= 2
    /\ ascii_alpha(s[1])
    /\ s[2] \in {COLON, PIPE}
    /\ (Len(s) = 2 \/ s[3] \in {SLASH, BACKSLASH, QUESTION, HASH})

is_windows_drive_letter(segment) ==
    Len(segment) = 2 /\ starts_with_windows_drive_letter(segment)

is_normalized_windows_drive_letter(segment) ==
    is_windows_drive_letter(segment) /\ segment[2] = COLON

path_starts_with_windows_drive_letter(s) ==
    /\ Len(s) > 0
    /\ s[1] \in {SLASH, BACKSLASH, QUESTION, HASH}
    /\ starts_with_windows_drive_letter(Tail(s))

starts_with_windows_drive_letter_segment(input) ==
    LET a == split_first(input)
        b == split_first(a.rest)
        c == split_first(b.rest)
    IN  /\ a.c # None /\ b.c # None
        /\ ascii_alpha(a.c[1])
        /\ b.c[1] \in {COLON, PIPE}
        /\ (c.c = None \/ c.c[1] \in {SLASH, BACKSLASH, QUESTION, HASH})

(***************************************************************************)
(* The percent decoder (used by the host parser).                          *)
(***************************************************************************)
HexValue(c) ==
    IF c \in Digits THEN c - 48
    ELSE IF c \in 65..70 THEN c - 55
    ELSE c - 87

\* after_percent_sign succeeds on the bytes that follow a '%'
after_percent_sign_ok(bytes) ==
    Len(bytes) >= 2 /\ is_ascii_hexdigit(bytes[1]) /\ is_ascii_hexdigit(bytes[2])

\* the bytes the PercentDecode iterator yields
RECURSIVE percent_decode(_)
percent_decode(bytes) ==
    IF bytes = <<>> THEN <<>>
    ELSE IF Head(bytes) = PERCENT /\ after_percent_sign_ok(Tail(bytes))
    THEN <<HexValue(bytes[2]) * 16 + HexValue(bytes[3])>>
         \o percent_decode(SubSeq(bytes, 4, Len(bytes)))
    ELSE <<Head(bytes)>> \o percent_decode(Tail(bytes))

(***************************************************************************)
(* The codec's iterators.  A PercentEncode is the bytes left and the set;  *)
(* a PercentDecode is the bytes left.  A Cow is Borrowed or Owned.         *)
(***************************************************************************)
NON_ALPHANUMERIC == (0..127) \ (Digits \cup UpperAlpha \cup LowerAlpha)

\* PercentEncode::next, but a run that ends before an encoded byte is cut
\* after its first byte
PercentEncode_next_ShortRun(self) ==
    IF self.bytes = <<>> THEN [item |-> None, self |-> self]
    ELSE LET first_byte == Head(self.bytes)
             remaining  == Tail(self.bytes)
             found == {i \in 0..(Len(remaining) - 1) :
                          should_percent_encode(self.ascii_set, remaining[i + 1])}
         IN  IF should_percent_encode(self.ascii_set, first_byte)
             THEN [item |-> Some(percent_encode_byte(first_byte)),
                   self |-> [self EXCEPT !.bytes = remaining]]
             ELSE IF found # {}
             THEN LET i == CHOOSE k \in found : \A j \in found : k <= j
                  IN  [item |-> Some(Slice(self.bytes, 0, 1)),
                       self |-> [self EXCEPT !.bytes = SliceFrom(self.bytes, 1)]]
             ELSE [item |-> Some(self.bytes),
                   self |-> [self EXCEPT !.bytes = <<>>]]

\* PercentEncode::next: the item yielded and the iterator left.  The for
\* loop stops at the first index of remaining whose byte is to be encoded.
PercentEncode_next(self) ==
    IF self.bytes = <<>> THEN [item |-> None, self |-> self]
    ELSE LET first_byte == Head(self.bytes)
             remaining  == Tail(self.bytes)
             found == {i \in 0..(Len(remaining) - 1) :
                          should_percent_encode(self.ascii_set, remaining[i + 1])}
         IN  IF should_percent_encode(self.ascii_set, first_byte)
             THEN [item |-> Some(percent_encode_byte(first_byte)),
                   self |-> [self EXCEPT !.bytes = remaining]]
             ELSE IF found # {}
             THEN LET i == CHOOSE k \in found : \A j \in found : k <= j
                  IN  [item |-> Some(Slice(self.bytes, 0, 1 + i)),
                       self |-> [self EXCEPT !.bytes = SliceFrom(self.bytes, 1 + i)]]
             ELSE [item |-> Some(self.bytes),
                   self |-> [self EXCEPT !.bytes = <<>>]]

PercentEncode_size_hint(self) ==
    IF self.bytes = <<>> THEN [lower |-> 0, upper |-> Some(0)]
    ELSE [lower |-> 1, upper |-> Some(Len(self.bytes))]

\* Cow::from(PercentEncode), but a single item is copied into an owned string
Cow_from_PercentEncode_OwnFirst(iter) ==
    Let(PercentEncode_next(iter), LAMBDA n1 :
        IF n1.item = None THEN [cow |-> "Borrowed", value |-> <<>>]
        ELSE Let(PercentEncode_next(n1.self), LAMBDA n2 :
                 IF n2.item = None THEN [cow |-> "Owned", value |-> n1.item[1]]
                 ELSE [cow |-> "Owned",
                       value |-> n1.item[1] \o n2.item[1]
                                 \o percent_encode(n2.self.bytes, n2.self.ascii_set)]))

\* impl From<PercentEncode> for Cow<str>; string.extend(iter) appends the
\* items left
Cow_from_PercentEncode(iter) ==
    Let(PercentEncode_next(iter), LAMBDA n1 :
        IF n1.item = None THEN [cow |-> "Borrowed", value |-> <<>>]
        ELSE Let(PercentEncode_next(n1.self), LAMBDA n2 :
                 IF n2.item = None THEN [cow |-> "Borrowed", value |-> n1.item[1]]
                 ELSE [cow |-> "Owned",
                       value |-> n1.item[1] \o n2.item[1]
                                 \o percent_encode(n2.self.bytes, n2.self.ascii_set)]))

\* after_percent_sign, but the byte is the second digit alone
after_percent_sign_LowNibble(iter) ==
    IF Len(iter) < 1 \/ ~is_ascii_hexdigit(iter[1])
    THEN [byte |-> None, iter |-> iter]
    ELSE IF Len(iter) < 2 \/ ~is_ascii_hexdigit(iter[2])
    THEN [byte |-> None, iter |-> iter]
    ELSE [byte |-> Some(HexValue(iter[2])),
          iter |-> SliceFrom(iter, 2)]

\* after_percent_sign: the byte decoded and the iterator left, which has
\* moved only when a byte was decoded
after_percent_sign(iter) ==
    IF Len(iter) < 1 \/ ~is_ascii_hexdigit(iter[1])
    THEN [byte |-> None, iter |-> iter]
    ELSE IF Len(iter) < 2 \/ ~is_ascii_hexdigit(iter[2])
    THEN [byte |-> None, iter |-> iter]
    ELSE [byte |-> Some((HexValue(iter[1]) * 16 + HexValue(iter[2])) % 256),
          iter |-> SliceFrom(iter, 2)]

\* PercentDecode::next, but a '%' that starts no triple is yielded as 0
PercentDecode_next_ZeroOnFail(bytes) ==
    IF bytes = <<>> THEN [item |-> None, bytes |-> bytes]
    ELSE LET byte == Head(bytes)
         IN  IF byte = PERCENT
             THEN Let(after_percent_sign(Tail(bytes)), LAMBDA a :
                      [item  |-> Some(IF a.byte # None THEN a.byte[1] ELSE 0),
                       bytes |-> a.iter])
             ELSE [item |-> Some(byte), bytes |-> Tail(bytes)]

\* PercentDecode::next: the byte yielded and the iterator left
PercentDecode_next(bytes) ==
    IF bytes = <<>> THEN [item |-> None, bytes |-> bytes]
    ELSE LET byte == Head(bytes)
         IN  IF byte = PERCENT
             THEN Let(after_percent_sign(Tail(bytes)), LAMBDA a :
                      [item  |-> Some(IF a.byte # None THEN a.byte[1] ELSE byte),
                       bytes |-> a.iter])
             ELSE [item |-> Some(byte), bytes |-> Tail(bytes)]

\* PercentDecode::size_hint, but the lower bound is a third of the bytes left
PercentDecode_size_hint_Thirds(bytes) ==
    [lower |-> Len(bytes) \div 3, upper |-> Some(Len(bytes))]

PercentDecode_size_hint(bytes) ==
    [lower |-> (Len(bytes) + 2) \div 3, upper |-> Some(Len(bytes))]

\* Iterator::any(|&b| b == b'%'): whether a '%' was met, and the iterator
\* left, just after it
RECURSIVE any_percent(_)
any_percent(bytes_iter) ==
    IF bytes_iter = <<>> THEN [found |-> FALSE, iter |-> <<>>]
    ELSE IF Head(bytes_iter) = PERCENT THEN [found |-> TRUE, iter |-> Tail(bytes_iter)]
    ELSE any_percent(Tail(bytes_iter))

\* PercentDecode::if_any, but the search ends at the first '%' that starts no triple
RECURSIVE PercentDecode_if_any_FirstPercentOnly(_, _)
PercentDecode_if_any_FirstPercentOnly(initial_bytes, bytes_iter) ==
    Let(any_percent(bytes_iter), LAMBDA found :
        IF ~found.found THEN None
        ELSE Let(after_percent_sign(found.iter), LAMBDA a :
                 IF a.byte # None
                 THEN LET unchanged_bytes_len == Len(initial_bytes) - Len(a.iter) - 3
                      IN  Some(Slice(initial_bytes, 0, unchanged_bytes_len)
                               \o <<a.byte[1]>>
                               \o percent_decode(a.iter))
                 ELSE None))

\* PercentDecode::if_any, its while loop run from bytes_iter;
\* decoded.extend(PercentDecode { bytes: bytes_iter }) appends the bytes left
RECURSIVE PercentDecode_if_any(_, _)
PercentDecode_if_any(initial_bytes, bytes_iter) ==
    Let(any_percent(bytes_iter), LAMBDA found :
        IF ~found.found THEN None
        ELSE Let(after_percent_sign(found.iter), LAMBDA a :
                 IF a.byte # None
                 THEN LET unchanged_bytes_len == Len(initial_bytes) - Len(a.iter) - 3
                      IN  Some(Slice(initial_bytes, 0, unchanged_bytes_len)
                               \o <<a.byte[1]>>
                               \o percent_decode(a.iter))
                 ELSE PercentDecode_if_any(initial_bytes, a.iter)))

\* impl From<PercentDecode> for Cow<[u8]>
Cow_from_PercentDecode(bytes) ==
    Let(PercentDecode_if_any(bytes, bytes), LAMBDA vec :
        IF vec # None THEN [cow |-> "Owned", value |-> vec[1]]
        ELSE [cow |-> "Borrowed", value |-> bytes])

(***************************************************************************)
(* The host service (host.rs): Host::parse, Host::parse_opaque, Display    *)
(* and the conversion to HostInternal.  IPv6 literals and non-ASCII        *)
(* domains are outside the modelled alphabet.                              *)
(***************************************************************************)
ForbiddenHostCodePoints ==
    {0, TAB, LF, CR, SPACE, HASH, SLASH, COLON, 60, 62, QUESTION, AT, 91,
     BACKSLASH, 93, 94, PIPE}
ForbiddenDomainCodePoints ==
    ForbiddenHostCodePoints \cup (0..31) \cup {PERCENT, 127}

HostErr(e) == [ok |-> FALSE, err |-> e, kind |-> "None", text |-> <<>>, addr |-> <<>>]
HostDomain(t) == [ok |-> TRUE, err |-> "", kind |-> "Domain", text |-> t, addr |-> <<>>]
HostIpv4(a) == [ok |-> TRUE, err |-> "", kind |-> "Ipv4", text |-> <<>>, addr |-> a]

\* str::split('.')
RECURSIVE SplitDot(_)
SplitDot(s) ==
    LET dots == {i \in 1..Len(s) : s[i] = DOT}
    IN  IF dots = {} THEN <<s>>
        ELSE LET i == CHOOSE k \in dots : \A j \in dots : k <= j
             IN  <<SubSeq(s, 1, i - 1)>> \o SplitDot(SubSeq(s, i + 1, Len(s)))

AllDigits(s) == \A i \in 1..Len(s) : s[i] \in Digits

RECURSIVE ParseRadix(_, _, _)
ParseRadix(s, radix, acc) ==
    IF s = <<>> THEN acc ELSE ParseRadix(Tail(s), radix, acc * radix + (Head(s) - 48))

\* parse_ipv4number on a part without an "0x" prefix: Some(n), or None on error
parse_ipv4number(part) ==
    IF part = <<>> THEN None
    ELSE IF Len(part) >= 2 /\ part[1] = 48
    THEN (IF \A i \in 2..Len(part) : part[i] \in 48..55
          THEN Some(ParseRadix(Tail(part), 8, 0)) ELSE None)
    ELSE IF AllDigits(part) THEN Some(ParseRadix(part, 10, 0))
    ELSE None

DropLastEmpty(parts) ==
    IF parts[Len(parts)] = <<>> THEN SubSeq(parts, 1, Len(parts) - 1) ELSE parts

ends_in_a_number(domain) ==
    LET parts == SplitDot(domain)
        last  == IF parts[Len(parts)] = <<>>
                 THEN (IF Len(parts) > 1 THEN parts[Len(parts) - 1] ELSE <<>>)
                 ELSE parts[Len(parts)]
    IN  last # <<>> /\ AllDigits(last)

\* 256^n for the n the IPv4 parser needs; 256^4 is beyond the numbers of the
\* model, whose inputs are too short to write an address that large
Pow256(n) == IF n = 0 THEN 1 ELSE IF n = 1 THEN 256 ELSE IF n = 2 THEN 65536
             ELSE 16777216

\* an address is its four octets
parse_ipv4addr(domain) ==
    LET parts == DropLastEmpty(SplitDot(domain))
        n     == Len(parts)
    IN  IF n > 4 \/ n = 0 THEN HostErr("InvalidIpv4Address")
        ELSE IF \E i \in 1..n : parse_ipv4number(parts[i]) = None
        THEN HostErr("InvalidIpv4Address")
        ELSE LET num(i) == parse_ipv4number(parts[i])[1]
                 last   == num(n)
             IN  IF (n > 1 /\ last >= Pow256(5 - n)) \/ \E i \in 1..(n - 1) : num(i) > 255
                 THEN HostErr("InvalidIpv4Address")
                 ELSE HostIpv4(
                        [k \in 1..4 |->
                            IF k < n THEN num(k)
                            ELSE (last \div Pow256(4 - k)) % 256])

\* Host::parse / Host::parse_cow
HostParse(input) ==
    LET decoded == percent_decode(input)
        domain  == [i \in 1..Len(decoded) |-> to_ascii_lowercase(decoded[i])]
    IN  IF \E i \in 1..Len(domain) :
              domain[i] \in ForbiddenDomainCodePoints \/ domain[i] >= 128
        THEN HostErr("IdnaError")
        ELSE IF domain = <<>> THEN HostErr("EmptyHost")
        ELSE IF ends_in_a_number(domain) THEN parse_ipv4addr(domain)
        ELSE HostDomain(domain)

\* Host::parse_opaque / Host::parse_opaque_cow
HostParseOpaque(input) ==
    IF \E i \in 1..Len(input) : input[i] \in ForbiddenHostCodePoints
    THEN HostErr("InvalidDomainCharacter")
    ELSE HostDomain(utf8_percent_encode(input, CONTROLS))

RECURSIVE DecimalDigits(_)
DecimalDigits(n) ==
    IF n < 10 THEN <<48 + n>> ELSE DecimalDigits(n \div 10) \o <<48 + (n % 10)>>

\* impl Display for Host
HostDisplay(h) ==
    IF h.kind = "Ipv4"
    THEN DecimalDigits(h.addr[1]) \o <<DOT>> \o DecimalDigits(h.addr[2]) \o <<DOT>>
         \o DecimalDigits(h.addr[3]) \o <<DOT>> \o DecimalDigits(h.addr[4])
    ELSE h.text

\* impl From<Host> for HostInternal
HostInternalNone == [kind |-> "None", addr |-> <<>>]
HostInternalFrom(h) ==
    IF h.kind = "Domain" /\ h.text = <<>> THEN HostInternalNone
    ELSE [kind |-> h.kind, addr |-> h.addr]

(***************************************************************************)
(* The URL record and the getters of Url the parser calls (lib.rs).        *)
(***************************************************************************)
UrlScheme(u) == Slice(u.serialization, 0, u.scheme_end)
UrlCannotBeABase(u) ==
    ~StartsWith(SliceFrom(u.serialization, u.scheme_end + 1), <<SLASH>>)
UrlPathEnd(u) ==
    IF u.query_start # None THEN u.query_start[1]
    ELSE IF u.fragment_start # None THEN u.fragment_start[1]
    ELSE Len(u.serialization)
UrlPath(u) == Slice(u.serialization, u.path_start, UrlPathEnd(u))
UrlHasHost(u) == u.host.kind # "None"
UrlHostStr(u) ==
    IF UrlHasHost(u) THEN Some(Slice(u.serialization, u.host_start, u.host_end))
    ELSE None
\* base_url.path_segments().unwrap().next().unwrap(): None when the unwrap panics
UrlFirstPathSegment(u) ==
    LET path == UrlPath(u)
    IN  IF ~StartsWith(path, <<SLASH>>) THEN None
        ELSE LET rest == Tail(path)
                 sl   == {i \in 1..Len(rest) : rest[i] = SLASH}
             IN  IF sl = {} THEN Some(rest)
                 ELSE Some(SubSeq(rest, 1,
                        (CHOOSE i \in sl : \A j \in sl : i <= j) - 1))

(***************************************************************************)
(* The parser.  P is the Parser value: the serialization built so far, the *)
(* violations reported to the observer (vfn: whether one is installed) and *)
(* the panics / failed debug assertions met.  Context is UrlParser and     *)
(* there is no query encoding override, as in Url::parse.                  *)
(***************************************************************************)
NewParser(has_vfn) ==
    [ser |-> <<>>, viol |-> {}, vfn |-> has_vfn, panics |-> {}, debug |-> {}]

Push(P, s) == [P EXCEPT !.ser = @ \o s]
SetSer(P, s) == [P EXCEPT !.ser = s]
Panic(P, what) == [P EXCEPT !.panics = @ \cup {what}]
PanicIf(P, cond, what) == IF cond THEN Panic(P, what) ELSE P
\* a debug_assert! that fails: fatal in debug builds only
DebugAssert(P, cond, what) == IF cond THEN P ELSE [P EXCEPT !.debug = @ \cup {what}]

\* log_violation, but the observer is unwrapped: reporting without one panics
log_violation_Unwrap(P, v) == IF P.vfn THEN [P EXCEPT !.viol = @ \cup {v}] ELSE Panic(P, "violation_fn")

log_violation(P, v) == IF P.vfn THEN [P EXCEPT !.viol = @ \cup {v}] ELSE P

log_violation_if(P, v, test) == IF P.vfn /\ test THEN [P EXCEPT !.viol = @ \cup {v}] ELSE P

\* `input` is the cursor after c
check_url_code_point(P, c, input) ==
    IF c = PERCENT
    THEN LET a == split_first(input)
             b == split_first(a.rest)
         IN  log_violation_if(P, "PercentDecode",
                 ~(a.c # None /\ b.c # None
                   /\ is_ascii_hexdigit(a.c[1]) /\ is_ascii_hexdigit(b.c[1])))
    ELSE log_violation_if(P, "NonUrlCodePoint", ~is_url_code_point(c))

SchemeTypeFrom(s) ==
    IF s \in {<<104,116,116,112>>, <<104,116,116,112,115>>, <<119,115>>,
              <<119,115,115>>, <<102,116,112>>}
    THEN "SpecialNotFile"
    ELSE IF s = <<102,105,108,101>> THEN "File"
    ELSE "NotSpecial"

is_special(scheme_type) == scheme_type # "NotSpecial"
is_file(scheme_type) == scheme_type = "File"

\* default_port, but without the "wss" arm
default_port_NoWss(scheme) ==
    IF scheme \in {<<104,116,116,112>>, <<119,115>>} THEN Some(80)
    ELSE IF scheme \in {<<104,116,116,112,115>>} THEN Some(443)
    ELSE IF scheme = <<102,116,112>> THEN Some(21)
    ELSE None

default_port(scheme) ==
    IF scheme \in {<<104,116,116,112>>, <<119,115>>} THEN Some(80)
    ELSE IF scheme \in {<<104,116,116,112,115>>, <<119,115,115>>} THEN Some(443)
    ELSE IF scheme = <<102,116,112>> THEN Some(21)
    ELSE None

NoUrl ==
    [serialization |-> <<>>, scheme_end |-> 0, username_end |-> 0,
     host_start |-> 0, host_end |-> 0, host |-> HostInternalNone, port |-> None,
     path_start |-> 0, query_start |-> None, fragment_start |-> None]

Ok(P, url) ==
    [ok |-> TRUE, err |-> "", url |-> url, viol |-> P.viol, panics |-> P.panics,
     debug |-> P.debug]
Err(P, e) ==
    [ok |-> FALSE, err |-> e, url |-> NoUrl, viol |-> P.viol, panics |-> P.panics,
     debug |-> P.debug]

\* the loop of parse_scheme, but an uppercase letter is pushed as it is
RECURSIVE parse_scheme_loop_NoFold(_, _)
parse_scheme_loop_NoFold(ser, input) ==
    LET f == split_first(input)
    IN  IF f.c = None THEN [ok |-> FALSE, ser |-> <<>>, rest |-> input]
        ELSE LET c == f.c[1]
             IN  IF c \in LowerAlpha \/ c \in Digits \/ c \in {PLUS, MINUS, DOT}
                 THEN parse_scheme_loop_NoFold(ser \o <<c>>, f.rest)
                 ELSE IF c \in UpperAlpha
                 THEN parse_scheme_loop_NoFold(ser \o <<c>>, f.rest)
                 ELSE IF c = COLON THEN [ok |-> TRUE, ser |-> ser, rest |-> f.rest]
                 ELSE [ok |-> FALSE, ser |-> <<>>, rest |-> input]

\* the while loop of parse_scheme
RECURSIVE parse_scheme_loop(_, _)
parse_scheme_loop(ser, input) ==
    LET f == split_first(input)
    IN  IF f.c = None THEN [ok |-> FALSE, ser |-> <<>>, rest |-> input]
        ELSE LET c == f.c[1]
             IN  IF c \in LowerAlpha \/ c \in Digits \/ c \in {PLUS, MINUS, DOT}
                 THEN parse_scheme_loop(ser \o <<c>>, f.rest)
                 ELSE IF c \in UpperAlpha
                 THEN parse_scheme_loop(ser \o <<to_ascii_lowercase(c)>>, f.rest)
                 ELSE IF c = COLON THEN [ok |-> TRUE, ser |-> ser, rest |-> f.rest]
                 ELSE [ok |-> FALSE, ser |-> <<>>, rest |-> input]

parse_scheme(P, input) ==
    LET f == split_first(input)
    IN  IF ~(f.c # None /\ ascii_alpha(f.c[1]))
        THEN [ok |-> FALSE, P |-> P, rest |-> input]
        ELSE LET r == parse_scheme_loop(P.ser, input)
             IN  [ok |-> r.ok, P |-> SetSer(P, r.ser), rest |-> r.rest]

\* QueryPartIter and the encoding of its parts: rest is Some(input after '#')
\* or None at the end of the input
RECURSIVE parse_query_loop(_, _, _)
parse_query_loop(P, set, input) ==
    IF input = <<>> THEN [P |-> P, rest |-> None]
    ELSE LET c == Head(input)
         IN  IF ascii_tab_or_new_line(c) THEN parse_query_loop(P, set, Tail(input))
             ELSE IF c = HASH THEN [P |-> P, rest |-> Some(Tail(input))]
             ELSE parse_query_loop(
                    Push(check_url_code_point(P, c, Tail(input)),
                         percent_encode(<<c>>, set)),
                    set, Tail(input))

parse_query(P, scheme_type, scheme_end, input) ==
    parse_query_loop(P, IF is_special(scheme_type) THEN SPECIAL_QUERY ELSE QUERY, input)

RECURSIVE parse_fragment(_, _)
parse_fragment(P, input) ==
    IF input = <<>> THEN P
    ELSE LET c == Head(input)
         IN  IF ascii_tab_or_new_line(c) THEN parse_fragment(P, Tail(input))
             ELSE parse_fragment(
                    Push(IF c = 0 THEN log_violation(P, "NullInFragment")
                         ELSE check_url_code_point(P, c, Tail(input)),
                         utf8_percent_encode(<<c>>, FRAGMENT)),
                    Tail(input))

\* Return (query_start, fragment_start)
parse_query_and_fragment(P, scheme_type, scheme_end, input) ==
    LET f == split_first(input)
    IN  IF f.c = None
        THEN [P |-> P, query_start |-> None, fragment_start |-> None]
        ELSE IF f.c[1] = HASH
        THEN [P |-> parse_fragment(Push(P, <<HASH>>), f.rest),
              query_start |-> None, fragment_start |-> Some(Len(P.ser))]
        ELSE IF f.c[1] = QUESTION
        THEN Let(parse_query(Push(P, <<QUESTION>>), scheme_type, scheme_end, f.rest),
                 LAMBDA q :
                 IF q.rest = None
                 THEN [P |-> q.P, query_start |-> Some(Len(P.ser)),
                       fragment_start |-> None]
                 ELSE [P |-> parse_fragment(Push(q.P, <<HASH>>), q.rest[1]),
                       query_start |-> Some(Len(P.ser)),
                       fragment_start |-> Some(Len(q.P.ser))])
        ELSE [P |-> Panic(P, "parse_query_and_fragment() called without ? or #"),
              query_start |-> None, fragment_start |-> None]

BeforeFragment(base_url) ==
    IF base_url.fragment_start # None
    THEN Slice(base_url.serialization, 0, base_url.fragment_start[1])
    ELSE base_url.serialization

BeforeQuery(base_url) ==
    IF base_url.query_start # None
    THEN Slice(base_url.serialization, 0, base_url.query_start[1])
    ELSE IF base_url.fragment_start # None
    THEN Slice(base_url.serialization, 0, base_url.fragment_start[1])
    ELSE base_url.serialization

fragment_only(P, base_url, input) ==
    LET before_fragment == BeforeFragment(base_url)
        f  == split_first(input)
        P1 == Push(P, before_fragment \o <<HASH>>)
    IN  Let(parse_fragment(P1, f.rest), LAMBDA P2 :
            Ok(P2, [base_url EXCEPT !.serialization = P2.ser,
                                    !.fragment_start = Some(Len(before_fragment))]))

\* with_query_and_fragment, but removing the "/." prefix leaves path_start
\* where it was
with_query_and_fragment_KeepPathStart(P, scheme_type, scheme_end, username_end, host_start, host_end, host, port, path_start, remaining) ==
    LET ser == P.ser
        case1 == path_start = scheme_end + 1
        ins   == case1 /\ StartsWith(SliceFrom(ser, path_start), <<SLASH, SLASH>>)
        case2 == /\ ~case1
                 /\ path_start = scheme_end + 3
                 /\ Slice(ser, scheme_end, path_start) = <<COLON, SLASH, DOT>>
        rem   == case2 /\ ~(Len(ser) > path_start + 1 /\ ser[path_start + 2] = SLASH)
        ser1  == IF ins
                 THEN Slice(ser, 0, path_start) \o <<SLASH, DOT>> \o SliceFrom(ser, path_start)
                 ELSE IF rem
                 THEN Slice(ser, 0, scheme_end) \o <<COLON>> \o SliceFrom(ser, path_start)
                 ELSE ser
        path_start1 == IF ins THEN path_start + 2
                       ELSE path_start
        P1 == PanicIf(
                PanicIf(SetSer(P, ser1),
                        case2 /\ ~(Len(ser) > path_start /\ ser[path_start + 1] = SLASH),
                        "assert_eq!(serialization[path_start], b'/')"),
                (case1 \/ case2)
                  /\ StartsWith(SliceFrom(ser1, scheme_end), <<COLON, SLASH, SLASH>>),
                "assert!(!serialization[scheme_end..].starts_with(\"://\"))")
    IN  Let(parse_query_and_fragment(P1, scheme_type, scheme_end, remaining), LAMBDA qf :
            Ok(qf.P,
               [serialization |-> qf.P.ser, scheme_end |-> scheme_end,
                username_end |-> username_end, host_start |-> host_start,
                host_end |-> host_end, host |-> host, port |-> port,
                path_start |-> path_start1, query_start |-> qf.query_start,
                fragment_start |-> qf.fragment_start]))

\* with_query_and_fragment, but the "/." of the base is never removed
with_query_and_fragment_KeepSlashDot(P, scheme_type, scheme_end, username_end, host_start, host_end, host, port, path_start, remaining) ==
    LET ser == P.ser
        case1 == path_start = scheme_end + 1
        ins   == case1 /\ StartsWith(SliceFrom(ser, path_start), <<SLASH, SLASH>>)
        case2 == /\ ~case1
                 /\ path_start = scheme_end + 3
                 /\ Slice(ser, scheme_end, path_start) = <<COLON, SLASH, DOT>>
        ser1  == IF ins
                 THEN Slice(ser, 0, path_start) \o <<SLASH, DOT>> \o SliceFrom(ser, path_start)
                 ELSE ser
        path_start1 == IF ins THEN path_start + 2
                       ELSE path_start
        P1 == PanicIf(
                PanicIf(SetSer(P, ser1),
                        case2 /\ ~(Len(ser) > path_start /\ ser[path_start + 1] = SLASH),
                        "assert_eq!(serialization[path_start], b'/')"),
                (case1 \/ case2)
                  /\ StartsWith(SliceFrom(ser1, scheme_end), <<COLON, SLASH, SLASH>>),
                "assert!(!serialization[scheme_end..].starts_with(\"://\"))")
    IN  Let(parse_query_and_fragment(P1, scheme_type, scheme_end, remaining), LAMBDA qf :
            Ok(qf.P,
               [serialization |-> qf.P.ser, scheme_end |-> scheme_end,
                username_end |-> username_end, host_start |-> host_start,
                host_end |-> host_end, host |-> host, port |-> port,
                path_start |-> path_start1, query_start |-> qf.query_start,
                fragment_start |-> qf.fragment_start]))

with_query_and_fragment(P, scheme_type, scheme_end, username_end, host_start, host_end, host, port, path_start, remaining) ==
    LET ser == P.ser
        case1 == path_start = scheme_end + 1
        ins   == case1 /\ StartsWith(SliceFrom(ser, path_start), <<SLASH, SLASH>>)
        case2 == /\ ~case1
                 /\ path_start = scheme_end + 3
                 /\ Slice(ser, scheme_end, path_start) = <<COLON, SLASH, DOT>>
        rem   == case2 /\ ~(Len(ser) > path_start + 1 /\ ser[path_start + 2] = SLASH)
        ser1  == IF ins
                 THEN Slice(ser, 0, path_start) \o <<SLASH, DOT>> \o SliceFrom(ser, path_start)
                 ELSE IF rem
                 THEN Slice(ser, 0, scheme_end) \o <<COLON>> \o SliceFrom(ser, path_start)
                 ELSE ser
        path_start1 == IF ins THEN path_start + 2
                       ELSE IF rem THEN path_start - 2 ELSE path_start
        P1 == PanicIf(
                PanicIf(SetSer(P, ser1),
                        case2 /\ ~(Len(ser) > path_start /\ ser[path_start + 1] = SLASH),
                        "assert_eq!(serialization[path_start], b'/')"),
                (case1 \/ case2)
                  /\ StartsWith(SliceFrom(ser1, scheme_end), <<COLON, SLASH, SLASH>>),
                "assert!(!serialization[scheme_end..].starts_with(\"://\"))")
    IN  Let(parse_query_and_fragment(P1, scheme_type, scheme_end, remaining), LAMBDA qf :
            Ok(qf.P,
               [serialization |-> qf.P.ser, scheme_end |-> scheme_end,
                username_end |-> username_end, host_start |-> host_start,
                host_end |-> host_end, host |-> host, port |-> port,
                path_start |-> path_start1, query_start |-> qf.query_start,
                fragment_start |-> qf.fragment_start]))

(***************************************************************************)
(* Paths.                                                                  *)
(***************************************************************************)
\* push_pending in UrlParser context
push_pending(P, text) == Push(P, utf8_percent_encode(text, PATH))

\* last_slash_can_be_removed, but the slash after a drive letter can be removed too
last_slash_can_be_removed_DriveToo(serialization, path_start) ==
    LET url_before_segment == Truncate(serialization, Len(serialization) - 1)
        segment_before_start == RFind(url_before_segment, SLASH)
    IN  /\ segment_before_start # None
        /\ segment_before_start[1] >= path_start

last_slash_can_be_removed(serialization, path_start) ==
    LET url_before_segment == Truncate(serialization, Len(serialization) - 1)
        segment_before_start == RFind(url_before_segment, SLASH)
    IN  /\ segment_before_start # None
        /\ segment_before_start[1] >= path_start
        /\ ~path_starts_with_windows_drive_letter(
               SliceFrom(serialization, segment_before_start[1]))

\* pop_path, but the last '/' is looked for after the root '/'
pop_path_AfterRoot(P, scheme_type, path_start) ==
    IF Len(P.ser) > path_start
    THEN LET slash_position == RFind(SliceFrom(P.ser, path_start + 1), SLASH)
         IN  IF slash_position = None
             THEN Panic(P, "pop_path_AfterRoot: rfind('/').unwrap()")
             ELSE LET segment_start == path_start + slash_position[1] + 1
                  IN  IF ~(is_file(scheme_type)
                           /\ is_normalized_windows_drive_letter(
                                  SliceFrom(P.ser, segment_start)))
                      THEN SetSer(P, Truncate(P.ser, segment_start))
                      ELSE P
    ELSE P

pop_path(P, scheme_type, path_start) ==
    IF Len(P.ser) > path_start
    THEN LET slash_position == RFind(SliceFrom(P.ser, path_start), SLASH)
         IN  IF slash_position = None
             THEN Panic(P, "pop_path: rfind('/').unwrap()")
             ELSE LET segment_start == path_start + slash_position[1] + 1
                  IN  IF ~(is_file(scheme_type)
                           /\ is_normalized_windows_drive_letter(
                                  SliceFrom(P.ser, segment_start)))
                      THEN SetSer(P, Truncate(P.ser, segment_start))
                      ELSE P
    ELSE P

shorten_path(P, scheme_type, path_start) ==
    IF Len(P.ser) = path_start THEN P
    ELSE IF Len(P.ser) < path_start
    THEN Panic(P, "shorten_path: serialization[path_start..]")
    ELSE IF is_file(scheme_type)
            /\ is_normalized_windows_drive_letter(SliceFrom(P.ser, path_start))
    THEN P
    ELSE pop_path(P, scheme_type, path_start)

DoubleDotSegments ==
    {<<DOT, DOT>>,
     <<PERCENT, 50, 101, PERCENT, 50, 101>>, <<PERCENT, 50, 101, PERCENT, 50, 69>>,
     <<PERCENT, 50, 69, PERCENT, 50, 101>>, <<PERCENT, 50, 69, PERCENT, 50, 69>>,
     <<PERCENT, 50, 101, DOT>>, <<PERCENT, 50, 69, DOT>>,
     <<DOT, PERCENT, 50, 101>>, <<DOT, PERCENT, 50, 69>>}
SingleDotSegments == {<<DOT>>, <<PERCENT, 50, 101>>, <<PERCENT, 50, 69>>}

\* the inner loop of parse_path, but a tab, LF or CR is pushed like the other
\* characters that end the pending text
RECURSIVE parse_path_segment_PushTab(_, _, _, _, _, _)
parse_path_segment_PushTab(P, pending, segment_start, input, scheme_type, path_start) ==
    IF input = <<>>
    THEN [P |-> push_pending(P, pending), segment_start |-> segment_start,
          ends_with_slash |-> FALSE, input |-> input]
    ELSE LET c == Head(input)
         IN  IF ascii_tab_or_new_line(c)
             THEN parse_path_segment_PushTab(Push(push_pending(P, pending), <<c>>), <<>>, segment_start,
                                     Tail(input), scheme_type, path_start)
             ELSE IF c = SLASH
             THEN [P |-> Push(push_pending(P, pending), <<c>>),
                   segment_start |-> segment_start,
                   ends_with_slash |-> TRUE, input |-> Tail(input)]
             ELSE IF c = BACKSLASH /\ is_special(scheme_type)
             THEN [P |-> Push(log_violation(push_pending(P, pending), "Backslash"),
                              <<SLASH>>),
                   segment_start |-> segment_start,
                   ends_with_slash |-> TRUE, input |-> Tail(input)]
             ELSE IF c \in {QUESTION, HASH}
             THEN [P |-> push_pending(P, pending), segment_start |-> segment_start,
                   ends_with_slash |-> FALSE, input |-> input]
             ELSE LET P1 == check_url_code_point(P, c, Tail(input))
                  IN  IF /\ is_file(scheme_type)
                         /\ Len(P1.ser) > path_start
                         /\ is_normalized_windows_drive_letter(
                                SliceFrom(P1.ser, path_start + 1))
                      THEN parse_path_segment_PushTab(
                               Push(push_pending(P1, pending), <<SLASH>>), <<c>>,
                               segment_start + 1, Tail(input), scheme_type, path_start)
                      ELSE parse_path_segment_PushTab(P1, pending \o <<c>>, segment_start,
                                              Tail(input), scheme_type, path_start)

\* the inner loop of parse_path: reads one segment and its terminator.
\* pending is the text between start_str and the cursor.
RECURSIVE parse_path_segment(_, _, _, _, _, _)
parse_path_segment(P, pending, segment_start, input, scheme_type, path_start) ==
    IF input = <<>>
    THEN [P |-> push_pending(P, pending), segment_start |-> segment_start,
          ends_with_slash |-> FALSE, input |-> input]
    ELSE LET c == Head(input)
         IN  IF ascii_tab_or_new_line(c)
             THEN parse_path_segment(push_pending(P, pending), <<>>, segment_start,
                                     Tail(input), scheme_type, path_start)
             ELSE IF c = SLASH
             THEN [P |-> Push(push_pending(P, pending), <<c>>),
                   segment_start |-> segment_start,
                   ends_with_slash |-> TRUE, input |-> Tail(input)]
             ELSE IF c = BACKSLASH /\ is_special(scheme_type)
             THEN [P |-> Push(log_violation(push_pending(P, pending), "Backslash"),
                              <<SLASH>>),
                   segment_start |-> segment_start,
                   ends_with_slash |-> TRUE, input |-> Tail(input)]
             ELSE IF c \in {QUESTION, HASH}
             THEN [P |-> push_pending(P, pending), segment_start |-> segment_start,
                   ends_with_slash |-> FALSE, input |-> input]
             ELSE LET P1 == check_url_code_point(P, c, Tail(input))
                  IN  IF /\ is_file(scheme_type)
                         /\ Len(P1.ser) > path_start
                         /\ is_normalized_windows_drive_letter(
                                SliceFrom(P1.ser, path_start + 1))
                      THEN parse_path_segment(
                               Push(push_pending(P1, pending), <<SLASH>>), <<c>>,
                               segment_start + 1, Tail(input), scheme_type, path_start)
                      ELSE parse_path_segment(P1, pending \o <<c>>, segment_start,
                                              Tail(input), scheme_type, path_start)

\* what parse_path does with the segment just read
after_path_segment(P, has_host, segment_start, ends_with_slash, scheme_type, path_start) ==
    LET ser == P.ser
        segment_before_slash ==
            Slice(ser, segment_start,
                  IF ends_with_slash THEN Len(ser) - 1 ELSE Len(ser))
    IN  IF segment_start > (IF ends_with_slash THEN Len(ser) - 1 ELSE Len(ser))
        THEN [P |-> Panic(P, "parse_path: serialization[segment_start..]"),
              has_host |-> has_host]
        ELSE IF segment_before_slash \in DoubleDotSegments
        THEN LET P0 == DebugAssert(P, segment_start >= 1 /\ ser[segment_start] = SLASH,
                         "debug_assert!(serialization[segment_start - 1] == b'/')")
                 t  == Truncate(ser, segment_start)
                 P1 == SetSer(P0, IF EndsWithChar(t, SLASH)
                                     /\ last_slash_can_be_removed(t, path_start)
                                  THEN Truncate(t, Len(t) - 1) ELSE t)
                 P2 == shorten_path(P1, scheme_type, path_start)
             IN  [P |-> IF ends_with_slash /\ ~EndsWithChar(P2.ser, SLASH)
                        THEN Push(P2, <<SLASH>>) ELSE P2,
                  has_host |-> has_host]
        ELSE IF segment_before_slash \in SingleDotSegments
        THEN LET t == Truncate(ser, segment_start)
             IN  [P |-> SetSer(P, IF ~EndsWithChar(t, SLASH) THEN t \o <<SLASH>> ELSE t),
                  has_host |-> has_host]
        ELSE IF /\ is_file(scheme_type)
                /\ segment_start = path_start + 1
                /\ is_windows_drive_letter(segment_before_slash)
        THEN LET t  == Truncate(ser, segment_start)
                        \o <<segment_before_slash[1], COLON>>
                        \o (IF ends_with_slash THEN <<SLASH>> ELSE <<>>)
                 P1 == SetSer(P, t)
             IN  [P |-> IF has_host
                        THEN log_violation(P1, "FileWithHostAndWindowsDrive") ELSE P1,
                  has_host |-> FALSE]
        ELSE [P |-> P, has_host |-> has_host]

\* the outer loop of parse_path
RECURSIVE parse_path_loop(_, _, _, _, _)
parse_path_loop(P, has_host, input, scheme_type, path_start) ==
    Let(parse_path_segment(P, <<>>, Len(P.ser), input, scheme_type, path_start),
        LAMBDA seg :
    Let(after_path_segment(seg.P, has_host, seg.segment_start, seg.ends_with_slash,
                           scheme_type, path_start),
        LAMBDA aft :
        IF seg.ends_with_slash
        THEN parse_path_loop(aft.P, aft.has_host, seg.input, scheme_type, path_start)
        ELSE [P |-> aft.P, has_host |-> aft.has_host, rest |-> seg.input]))

\* Returns the parser, the has_host flag and the remaining input
parse_path(P, scheme_type, has_host, path_start, input) ==
    Let(parse_path_loop(P, has_host, input, scheme_type, path_start), LAMBDA r :
        IF is_file(scheme_type) /\ path_start > Len(r.P.ser)
        THEN [r EXCEPT !.P = Panic(r.P, "parse_path: split_off(path_start)")]
        ELSE IF is_file(scheme_type)
        THEN [r EXCEPT !.P = SetSer(r.P,
                 Truncate(r.P.ser, path_start) \o <<SLASH>>
                 \o TrimStartMatches(SliceFrom(r.P.ser, path_start), SLASH))]
        ELSE r)

\* parse_path_start, but a special URL whose path does not start with a slash
\* gets none
parse_path_start_NoSlash(P, scheme_type, has_host, input) ==
    LET path_start == Len(P.ser)
        f == split_first(input)
    IN  IF is_special(scheme_type)
        THEN LET P1 == log_violation_if(P, "Backslash", f.c = Some(BACKSLASH))
                 slash == ~EndsWithChar(P1.ser, SLASH)
             IN  parse_path(IF slash /\ (f.c = Some(SLASH) \/ f.c = Some(BACKSLASH))
                            THEN Push(P1, <<SLASH>>) ELSE P1,
                            scheme_type, has_host, path_start,
                            IF slash /\ (f.c = Some(SLASH) \/ f.c = Some(BACKSLASH))
                            THEN f.rest ELSE input)
        ELSE IF f.c = Some(QUESTION) \/ f.c = Some(HASH)
        THEN [P |-> P, has_host |-> has_host, rest |-> input]
        ELSE parse_path(IF f.c # None /\ f.c # Some(SLASH) THEN Push(P, <<SLASH>>) ELSE P,
                        scheme_type, has_host, path_start, input)

parse_path_start(P, scheme_type, has_host, input) ==
    LET path_start == Len(P.ser)
        f == split_first(input)
    IN  IF is_special(scheme_type)
        THEN LET P1 == log_violation_if(P, "Backslash", f.c = Some(BACKSLASH))
                 slash == ~EndsWithChar(P1.ser, SLASH)
             IN  parse_path(IF slash THEN Push(P1, <<SLASH>>) ELSE P1,
                            scheme_type, has_host, path_start,
                            IF slash /\ (f.c = Some(SLASH) \/ f.c = Some(BACKSLASH))
                            THEN f.rest ELSE input)
        ELSE IF f.c = Some(QUESTION) \/ f.c = Some(HASH)
        THEN [P |-> P, has_host |-> has_host, rest |-> input]
        ELSE parse_path(IF f.c # None /\ f.c # Some(SLASH) THEN Push(P, <<SLASH>>) ELSE P,
                        scheme_type, has_host, path_start, input)

RECURSIVE parse_cannot_be_a_base_path(_, _)
parse_cannot_be_a_base_path(P, input) ==
    LET f == split_first(input)
    IN  IF f.c = None THEN [P |-> P, rest |-> <<>>]
        ELSE IF f.c[1] \in {QUESTION, HASH} THEN [P |-> P, rest |-> input]
        ELSE parse_cannot_be_a_base_path(
                 Push(check_url_code_point(P, f.c[1], f.rest),
                      utf8_percent_encode(<<f.c[1]>>, CONTROLS)),
                 f.rest)

(***************************************************************************)
(* Authority: userinfo, host and port.                                     *)
(***************************************************************************)
\* the pre-scan of parse_userinfo for the last '@': last_at is
\* Some(<<char_count, input after the '@'>>)
RECURSIVE userinfo_scan(_, _, _, _, _)
userinfo_scan(P, remaining, char_count, last_at, scheme_type) ==
    LET f == split_first(remaining)
    IN  IF f.c = None THEN [P |-> P, last_at |-> last_at]
        ELSE LET c == f.c[1]
             IN  IF c = AT
                 THEN userinfo_scan(
                        log_violation(P, IF last_at # None THEN "UnencodedAtSign"
                                         ELSE "EmbeddedCredentials"),
                        f.rest, char_count + 1, Some(<<char_count, f.rest>>), scheme_type)
                 ELSE IF c \in {SLASH, QUESTION, HASH}
                         \/ (c = BACKSLASH /\ is_special(scheme_type))
                 THEN [P |-> P, last_at |-> last_at]
                 ELSE userinfo_scan(P, f.rest, char_count + 1, last_at, scheme_type)

\* the replay loop of parse_userinfo
RECURSIVE userinfo_replay(_, _, _, _, _, _)
userinfo_replay(P, input, userinfo_char_count, username_end, has_password, has_username) ==
    IF userinfo_char_count = 0
    THEN [P |-> P, username_end |-> username_end, has_password |-> has_password,
          has_username |-> has_username]
    ELSE LET f == split_first(input)
             c == f.c[1]
             n == userinfo_char_count - 1
         IN  IF c = COLON /\ username_end = None
             THEN userinfo_replay(IF n > 0 THEN Push(P, <<COLON>>) ELSE P, f.rest, n,
                                  Some(Len(P.ser)), n > 0, has_username)
             ELSE userinfo_replay(
                      Push(check_url_code_point(P, c, f.rest),
                           utf8_percent_encode(<<c>>, USERINFO)),
                      f.rest, n, username_end, has_password,
                      has_username \/ ~has_password)

\* parse_userinfo, but the '@' is written after every userinfo
parse_userinfo_AlwaysAt(P, input, scheme_type) ==
    Let(userinfo_scan(P, input, 0, None, scheme_type), LAMBDA sc :
        IF sc.last_at = None
        THEN [ok |-> TRUE, P |-> sc.P, username_end |-> Len(P.ser), rest |-> input]
        ELSE IF sc.last_at[1][1] = 0
        THEN LET remaining == sc.last_at[1][2]
                 f == split_first(remaining)
             IN  IF f.c # None
                    /\ (f.c[1] \in {SLASH, QUESTION, HASH}
                        \/ (is_special(scheme_type) /\ f.c[1] = BACKSLASH))
                 THEN [ok |-> FALSE, P |-> sc.P, username_end |-> 0, rest |-> remaining]
                 ELSE [ok |-> TRUE, P |-> sc.P, username_end |-> Len(P.ser),
                       rest |-> remaining]
        ELSE Let(userinfo_replay(sc.P, input, sc.last_at[1][1], None, FALSE, FALSE),
                 LAMBDA r :
                 [ok |-> TRUE,
                  P  |-> Push(r.P, <<AT>>),
                  username_end |-> IF r.username_end # None THEN r.username_end[1]
                                   ELSE Len(r.P.ser),
                  rest |-> sc.last_at[1][2]]))

\* Return (username_end, remaining)
parse_userinfo(P, input, scheme_type) ==
    Let(userinfo_scan(P, input, 0, None, scheme_type), LAMBDA sc :
        IF sc.last_at = None
        THEN [ok |-> TRUE, P |-> sc.P, username_end |-> Len(P.ser), rest |-> input]
        ELSE IF sc.last_at[1][1] = 0
        THEN LET remaining == sc.last_at[1][2]
                 f == split_first(remaining)
             IN  IF f.c # None
                    /\ (f.c[1] \in {SLASH, QUESTION, HASH}
                        \/ (is_special(scheme_type) /\ f.c[1] = BACKSLASH))
                 THEN [ok |-> FALSE, P |-> sc.P, username_end |-> 0, rest |-> remaining]
                 ELSE [ok |-> TRUE, P |-> sc.P, username_end |-> Len(P.ser),
                       rest |-> remaining]
        ELSE Let(userinfo_replay(sc.P, input, sc.last_at[1][1], None, FALSE, FALSE),
                 LAMBDA r :
                 [ok |-> TRUE,
                  P  |-> IF r.has_username \/ r.has_password
                         THEN Push(r.P, <<AT>>) ELSE r.P,
                  username_end |-> IF r.username_end # None THEN r.username_end[1]
                                   ELSE Len(r.P.ser),
                  rest |-> sc.last_at[1][2]]))

\* input.by_ref().take(n): the n chars taken and the cursor after them
RECURSIVE TakeChars(_, _)
TakeChars(input, n) ==
    IF n = 0 THEN [taken |-> <<>>, rest |-> input]
    ELSE LET f == split_first(input)
         IN  IF f.c = None THEN [taken |-> <<>>, rest |-> <<>>]
             ELSE LET r == TakeChars(f.rest, n - 1)
                  IN  [taken |-> <<f.c[1]>> \o r.taken, rest |-> r.rest]

\* the scan of Parser::parse_host over the raw text: the number of
\* non-ignored chars before the host's terminator
RECURSIVE host_scan(_, _, _)
host_scan(input_str, inside_square_brackets, scheme_type) ==
    IF input_str = <<>> THEN 0
    ELSE LET c == Head(input_str)
         IN  IF (c = COLON /\ ~inside_square_brackets)
                \/ (c = BACKSLASH /\ is_special(scheme_type))
                \/ c \in {SLASH, QUESTION, HASH}
             THEN 0
             ELSE IF ascii_tab_or_new_line(c)
             THEN host_scan(Tail(input_str), inside_square_brackets, scheme_type)
             ELSE 1 + host_scan(Tail(input_str),
                                IF c = 91 THEN TRUE
                                ELSE IF c = 93 THEN FALSE
                                ELSE inside_square_brackets,
                                scheme_type)

\* the scan of Parser::file_host
RECURSIVE file_host_scan(_)
file_host_scan(input_str) ==
    IF input_str = <<>> THEN 0
    ELSE LET c == Head(input_str)
         IN  IF c \in {SLASH, BACKSLASH, QUESTION, HASH} THEN 0
             ELSE IF ascii_tab_or_new_line(c) THEN file_host_scan(Tail(input_str))
             ELSE 1 + file_host_scan(Tail(input_str))

\* Parser::file_host: (host_str, remaining)
file_host(input) ==
    Let(TakeChars(input, file_host_scan(input)), LAMBDA t :
        IF is_windows_drive_letter(t.taken)
        THEN [host_str |-> <<>>, rest |-> input]
        ELSE [host_str |-> t.taken, rest |-> t.rest])

get_file_host(input) ==
    Let(file_host(input), LAMBDA fh :
    Let(HostParse(fh.host_str), LAMBDA h :
        [host |-> IF h.ok /\ h.kind = "Domain"
                     /\ h.text = <<108,111,99,97,108,104,111,115,116>>
                  THEN HostDomain(<<>>) ELSE h,
         rest |-> fh.rest]))

\* Parser::parse_host: (Host or error, remaining)
parse_host(input, scheme_type) ==
    IF is_file(scheme_type) THEN get_file_host(input)
    ELSE Let(TakeChars(input, host_scan(input, FALSE, scheme_type)), LAMBDA t :
             [host |-> IF scheme_type = "SpecialNotFile" /\ t.taken = <<>>
                       THEN HostErr("EmptyHost")
                       ELSE IF ~is_special(scheme_type)
                       THEN HostParseOpaque(t.taken)
                       ELSE HostParse(t.taken),
              rest |-> t.rest])

\* Parser::parse_file_host: (has_host, host, remaining), writing the host
parse_file_host(P, input) ==
    Let(file_host(input), LAMBDA fh :
        IF fh.host_str = <<>>
        THEN [ok |-> TRUE, err |-> "", P |-> P, has_host |-> FALSE,
              host |-> HostInternalNone, rest |-> fh.rest]
        ELSE Let(HostParse(fh.host_str), LAMBDA h :
                 IF ~h.ok
                 THEN [ok |-> FALSE, err |-> h.err, P |-> P, has_host |-> FALSE,
                       host |-> HostInternalNone, rest |-> fh.rest]
                 ELSE IF h.kind = "Domain"
                         /\ h.text = <<108,111,99,97,108,104,111,115,116>>
                 THEN [ok |-> TRUE, err |-> "", P |-> P, has_host |-> FALSE,
                       host |-> HostInternalNone, rest |-> fh.rest]
                 ELSE [ok |-> TRUE, err |-> "", P |-> Push(P, HostDisplay(h)),
                       has_host |-> TRUE, host |-> HostInternalFrom(h),
                       rest |-> fh.rest]))

U16_MAX == 65535

\* the loop of parse_port, but '\' does not end the port
RECURSIVE parse_port_loop_NoBackslash(_, _, _)
parse_port_loop_NoBackslash(input, port, has_any_digit) ==
    LET f == split_first(input)
    IN  IF f.c = None
        THEN [ok |-> TRUE, port |-> port, has_any_digit |-> has_any_digit, rest |-> input]
        ELSE IF f.c[1] \in Digits
        THEN LET p == port * 10 + (f.c[1] - 48)
             IN  IF p > U16_MAX
                 THEN [ok |-> FALSE, port |-> p, has_any_digit |-> TRUE, rest |-> input]
                 ELSE parse_port_loop_NoBackslash(f.rest, p, TRUE)
        ELSE IF f.c[1] \notin {SLASH, QUESTION, HASH}
        THEN [ok |-> FALSE, port |-> port, has_any_digit |-> has_any_digit,
              rest |-> input]
        ELSE [ok |-> TRUE, port |-> port, has_any_digit |-> has_any_digit, rest |-> input]

\* the loop of parse_port: ok is FALSE on InvalidPort
RECURSIVE parse_port_loop(_, _, _)
parse_port_loop(input, port, has_any_digit) ==
    LET f == split_first(input)
    IN  IF f.c = None
        THEN [ok |-> TRUE, port |-> port, has_any_digit |-> has_any_digit, rest |-> input]
        ELSE IF f.c[1] \in Digits
        THEN LET p == port * 10 + (f.c[1] - 48)
             IN  IF p > U16_MAX
                 THEN [ok |-> FALSE, port |-> p, has_any_digit |-> TRUE, rest |-> input]
                 ELSE parse_port_loop(f.rest, p, TRUE)
        ELSE IF f.c[1] \notin {SLASH, BACKSLASH, QUESTION, HASH}
        THEN [ok |-> FALSE, port |-> port, has_any_digit |-> has_any_digit,
              rest |-> input]
        ELSE [ok |-> TRUE, port |-> port, has_any_digit |-> has_any_digit, rest |-> input]

\* Parser::parse_port in UrlParser context: (Option<u16>, remaining)
parse_port(input, default) ==
    Let(parse_port_loop(input, 0, FALSE), LAMBDA r :
        [ok   |-> r.ok,
         port |-> IF ~r.has_any_digit \/ Some(r.port) = default THEN None
                  ELSE Some(r.port),
         rest |-> r.rest])

\* the loop of fast_u16_to_str: the digits are written from the end of the
\* buffer backwards, and the text returned is buffer[index..]
RECURSIVE fast_u16_to_str_loop(_, _)
fast_u16_to_str_loop(written, value) ==
    LET buffer == <<48 + (value % 10)>> \o written
    IN  IF value \div 10 = 0 THEN buffer
        ELSE fast_u16_to_str_loop(buffer, value \div 10)

fast_u16_to_str(value) == fast_u16_to_str_loop(<<>>, value)

\* parse_host_and_port, but host_end is read after the port is pushed
parse_host_and_port_EndAfterPort(P, input, scheme_end, scheme_type) ==
    Let(parse_host(input, scheme_type), LAMBDA ph :
        LET h  == ph.host
            bad(e) == [ok |-> FALSE, err |-> e, P |-> P, host_end |-> 0,
                       host |-> HostInternalNone, port |-> None, rest |-> ph.rest]
        IN  IF ~h.ok THEN bad(h.err)
            ELSE Let(Push(P, HostDisplay(h)), LAMBDA P1 :
                 LET host_end == Len(P1.ser)
                     after_colon == split_prefix(ph.rest, <<COLON>>)
                 IN  IF h.kind = "Domain" /\ h.text = <<>>
                        /\ (after_colon # None \/ is_special(scheme_type))
                     THEN bad("EmptyHost")
                     ELSE IF after_colon # None
                     THEN Let(parse_port(after_colon[1],
                                         default_port(Slice(P1.ser, 0, scheme_end))),
                              LAMBDA pp :
                              IF ~pp.ok THEN bad("InvalidPort")
                              ELSE [ok |-> TRUE, err |-> "",
                                    P  |-> IF pp.port # None
                                           THEN Push(P1, <<COLON>> \o fast_u16_to_str(pp.port[1]))
                                           ELSE P1,
                                    host_end |-> IF pp.port # None
                                                 THEN host_end + 1 + Len(fast_u16_to_str(pp.port[1]))
                                                 ELSE host_end,
                                    host |-> HostInternalFrom(h),
                                    port |-> pp.port, rest |-> pp.rest])
                     ELSE [ok |-> TRUE, err |-> "", P |-> P1, host_end |-> host_end,
                           host |-> HostInternalFrom(h), port |-> None, rest |-> ph.rest]))

\* parse_host_and_port, but parse_host's EmptyHost is not propagated
parse_host_and_port_IgnoreEmptyHost(P, input, scheme_end, scheme_type) ==
    Let(parse_host(input, scheme_type), LAMBDA ph :
        LET h  == ph.host
            bad(e) == [ok |-> FALSE, err |-> e, P |-> P, host_end |-> 0,
                       host |-> HostInternalNone, port |-> None, rest |-> ph.rest]
        IN  IF ~h.ok /\ h.err # "EmptyHost" THEN bad(h.err)
            ELSE Let(Push(P, HostDisplay(h)), LAMBDA P1 :
                 LET host_end == Len(P1.ser)
                     after_colon == split_prefix(ph.rest, <<COLON>>)
                 IN  IF h.kind = "Domain" /\ h.text = <<>>
                        /\ (after_colon # None \/ is_special(scheme_type))
                     THEN bad("EmptyHost")
                     ELSE IF after_colon # None
                     THEN Let(parse_port(after_colon[1],
                                         default_port(Slice(P1.ser, 0, scheme_end))),
                              LAMBDA pp :
                              IF ~pp.ok THEN bad("InvalidPort")
                              ELSE [ok |-> TRUE, err |-> "",
                                    P  |-> IF pp.port # None
                                           THEN Push(P1, <<COLON>> \o fast_u16_to_str(pp.port[1]))
                                           ELSE P1,
                                    host_end |-> host_end, host |-> HostInternalFrom(h),
                                    port |-> pp.port, rest |-> pp.rest])
                     ELSE [ok |-> TRUE, err |-> "", P |-> P1, host_end |-> host_end,
                           host |-> HostInternalFrom(h), port |-> None, rest |-> ph.rest]))

\* Return (host_end, host, port, remaining)
parse_host_and_port(P, input, scheme_end, scheme_type) ==
    Let(parse_host(input, scheme_type), LAMBDA ph :
        LET h  == ph.host
            bad(e) == [ok |-> FALSE, err |-> e, P |-> P, host_end |-> 0,
                       host |-> HostInternalNone, port |-> None, rest |-> ph.rest]
        IN  IF ~h.ok THEN bad(h.err)
            ELSE Let(Push(P, HostDisplay(h)), LAMBDA P1 :
                 LET host_end == Len(P1.ser)
                     after_colon == split_prefix(ph.rest, <<COLON>>)
                 IN  IF h.kind = "Domain" /\ h.text = <<>>
                        /\ (after_colon # None \/ is_special(scheme_type))
                     THEN bad("EmptyHost")
                     ELSE IF after_colon # None
                     THEN Let(parse_port(after_colon[1],
                                         default_port(Slice(P1.ser, 0, scheme_end))),
                              LAMBDA pp :
                              IF ~pp.ok THEN bad("InvalidPort")
                              ELSE [ok |-> TRUE, err |-> "",
                                    P  |-> IF pp.port # None
                                           THEN Push(P1, <<COLON>> \o fast_u16_to_str(pp.port[1]))
                                           ELSE P1,
                                    host_end |-> host_end, host |-> HostInternalFrom(h),
                                    port |-> pp.port, rest |-> pp.rest])
                     ELSE [ok |-> TRUE, err |-> "", P |-> P1, host_end |-> host_end,
                           host |-> HostInternalFrom(h), port |-> None, rest |-> ph.rest]))

after_double_slash(P, input, scheme_type, scheme_end) ==
    LET P1 == Push(P, <<SLASH, SLASH>>)
        before_authority == Len(P1.ser)
    IN  Let(parse_userinfo(P1, input, scheme_type), LAMBDA ui :
        IF ~ui.ok THEN Err(ui.P, "EmptyHost")
        ELSE LET has_authority == before_authority # Len(ui.P.ser)
                 host_start == Len(ui.P.ser)
             IN  Let(parse_host_and_port(ui.P, ui.rest, scheme_end, scheme_type),
                     LAMBDA hp :
                     IF ~hp.ok THEN Err(hp.P, hp.err)
                     ELSE IF hp.host = HostInternalNone /\ has_authority
                     THEN Err(hp.P, "EmptyHost")
                     ELSE LET path_start == Len(hp.P.ser)
                          IN  Let(parse_path_start(hp.P, scheme_type, TRUE, hp.rest),
                                  LAMBDA ps :
                                  with_query_and_fragment(ps.P, scheme_type, scheme_end,
                                      ui.username_end, host_start, hp.host_end, hp.host,
                                      hp.port, path_start, ps.rest))))

(***************************************************************************)
(* The states of the basic URL parser.                                     *)
(***************************************************************************)
FILE_SCHEME == <<102, 105, 108, 101>>
FILE_SLASH_SLASH == FILE_SCHEME \o <<COLON, SLASH, SLASH>>

MkUrl(P, scheme_end, username_end, host_start, host_end, host, port, path_start, query_start, fragment_start) ==
    Ok(P, [serialization |-> P.ser, scheme_end |-> scheme_end,
           username_end |-> username_end, host_start |-> host_start,
           host_end |-> host_end, host |-> host, port |-> port,
           path_start |-> path_start, query_start |-> query_start,
           fragment_start |-> fragment_start])

\* parse_non_special, but username_end is scheme_end
parse_non_special_AtColon(P, input, scheme_type, scheme_end) ==
    LET dbl == split_prefix(input, <<SLASH, SLASH>>)
    IN  IF dbl # None THEN after_double_slash(P, dbl[1], scheme_type, scheme_end)
        ELSE LET path_start == Len(P.ser)
                 one == split_prefix(input, <<SLASH>>)
             IN  Let(IF one # None
                     THEN parse_path(Push(P, <<SLASH>>), scheme_type, FALSE,
                                     path_start, one[1])
                     ELSE parse_cannot_be_a_base_path(P, input),
                     LAMBDA r :
                     with_query_and_fragment(r.P, scheme_type, scheme_end, scheme_end,
                         path_start, path_start, HostInternalNone, None, path_start,
                         r.rest))

\* Scheme other than file, http, https, ws, wss, ftp
parse_non_special(P, input, scheme_type, scheme_end) ==
    LET dbl == split_prefix(input, <<SLASH, SLASH>>)
    IN  IF dbl # None THEN after_double_slash(P, dbl[1], scheme_type, scheme_end)
        ELSE LET path_start == Len(P.ser)
                 one == split_prefix(input, <<SLASH>>)
             IN  Let(IF one # None
                     THEN parse_path(Push(P, <<SLASH>>), scheme_type, FALSE,
                                     path_start, one[1])
                     ELSE parse_cannot_be_a_base_path(P, input),
                     LAMBDA r :
                     with_query_and_fragment(r.P, scheme_type, scheme_end, path_start,
                         path_start, path_start, HostInternalNone, None, path_start,
                         r.rest))

\* parse_file_slash, but the host bytes stay in the serialization when the host is dropped
parse_file_slash_KeepHostBytes(P, input, scheme_type, base_file_url) ==
    LET first == split_first(input)
        P1    == log_violation_if(P, "Backslash", first.c = Some(BACKSLASH))
        next  == split_first(first.rest)
    IN  IF next.c = Some(SLASH) \/ next.c = Some(BACKSLASH)
        THEN \* file host state
             LET P2 == Push(log_violation_if(P1, "Backslash", next.c = Some(BACKSLASH)),
                            FILE_SLASH_SLASH)
                 scheme_end == 4
                 host_start == 7
             IN  Let(parse_file_host(P2, next.rest), LAMBDA fh :
                 IF ~fh.ok THEN Err(fh.P, fh.err)
                 ELSE LET host_end == Len(fh.P.ser)
                          has_host == fh.host # HostInternalNone
                      IN  Let(IF fh.has_host
                              THEN parse_path_start(fh.P, "File", has_host, fh.rest)
                              ELSE parse_path(Push(fh.P, <<SLASH>>), "File", has_host,
                                              Len(fh.P.ser), fh.rest),
                              LAMBDA pp :
                              LET P3 == pp.P
                                  host_end1 == IF ~pp.has_host THEN host_start ELSE host_end
                                  host1 == IF ~pp.has_host THEN HostInternalNone ELSE fh.host
                              IN  Let(parse_query_and_fragment(P3, scheme_type, scheme_end,
                                                               pp.rest),
                                      LAMBDA qf :
                                      MkUrl(qf.P, scheme_end, host_start, host_start,
                                            host_end1, host1, None, host_end1,
                                            qf.query_start, qf.fragment_start))))
        ELSE LET P2 == Push(P1, FILE_SLASH_SLASH)
                 scheme_end == 4
                 host_start == 7
                 inherit == /\ ~starts_with_windows_drive_letter_segment(first.rest)
                            /\ base_file_url # None
                 base_url == base_file_url[1]
                 first_segment == UrlFirstPathSegment(base_url)
                 drive == /\ inherit /\ first_segment # None
                          /\ is_normalized_windows_drive_letter(first_segment[1])
                 hosted == inherit /\ first_segment # None /\ ~drive
                           /\ UrlHostStr(base_url) # None
                 host == IF hosted THEN base_url.host ELSE HostInternalNone
             IN  Let(IF inherit /\ first_segment = None
                     THEN Panic(P2, "path_segments().unwrap()")
                     ELSE IF drive THEN Push(P2, <<SLASH>> \o first_segment[1])
                     ELSE IF hosted THEN Push(P2, UrlHostStr(base_url)[1])
                     ELSE P2,
                     LAMBDA P3 :
                     LET host_end == IF hosted THEN Len(P3.ser) ELSE host_start
                     IN  Let(parse_path(P3, "File", FALSE, host_end, input), LAMBDA pp :
                         Let(parse_query_and_fragment(pp.P, scheme_type, scheme_end, pp.rest),
                             LAMBDA qf :
                             MkUrl(qf.P, scheme_end, host_start, host_start, host_end,
                                   host, None, host_end, qf.query_start,
                                   qf.fragment_start))))

\* parse_file_slash, but the single-slash arm never takes the host of the base
parse_file_slash_NoBaseHost(P, input, scheme_type, base_file_url) ==
    LET first == split_first(input)
        P1    == log_violation_if(P, "Backslash", first.c = Some(BACKSLASH))
        next  == split_first(first.rest)
    IN  IF next.c = Some(SLASH) \/ next.c = Some(BACKSLASH)
        THEN \* file host state
             LET P2 == Push(log_violation_if(P1, "Backslash", next.c = Some(BACKSLASH)),
                            FILE_SLASH_SLASH)
                 scheme_end == 4
                 host_start == 7
             IN  Let(parse_file_host(P2, next.rest), LAMBDA fh :
                 IF ~fh.ok THEN Err(fh.P, fh.err)
                 ELSE LET host_end == Len(fh.P.ser)
                          has_host == fh.host # HostInternalNone
                      IN  Let(IF fh.has_host
                              THEN parse_path_start(fh.P, "File", has_host, fh.rest)
                              ELSE parse_path(Push(fh.P, <<SLASH>>), "File", has_host,
                                              Len(fh.P.ser), fh.rest),
                              LAMBDA pp :
                              LET P3 == IF ~pp.has_host
                                        THEN SetSer(pp.P, Slice(pp.P.ser, 0, host_start)
                                                          \o SliceFrom(pp.P.ser, host_end))
                                        ELSE pp.P
                                  host_end1 == IF ~pp.has_host THEN host_start ELSE host_end
                                  host1 == IF ~pp.has_host THEN HostInternalNone ELSE fh.host
                              IN  Let(parse_query_and_fragment(P3, scheme_type, scheme_end,
                                                               pp.rest),
                                      LAMBDA qf :
                                      MkUrl(qf.P, scheme_end, host_start, host_start,
                                            host_end1, host1, None, host_end1,
                                            qf.query_start, qf.fragment_start))))
        ELSE LET P2 == Push(P1, FILE_SLASH_SLASH)
                 scheme_end == 4
                 host_start == 7
                 inherit == /\ ~starts_with_windows_drive_letter_segment(first.rest)
                            /\ base_file_url # None
                 base_url == base_file_url[1]
                 first_segment == UrlFirstPathSegment(base_url)
                 drive == /\ inherit /\ first_segment # None
                          /\ is_normalized_windows_drive_letter(first_segment[1])
                 hosted == FALSE
                 host == IF hosted THEN base_url.host ELSE HostInternalNone
             IN  Let(IF inherit /\ first_segment = None
                     THEN Panic(P2, "path_segments().unwrap()")
                     ELSE IF drive THEN Push(P2, <<SLASH>> \o first_segment[1])
                     ELSE IF hosted THEN Push(P2, UrlHostStr(base_url)[1])
                     ELSE P2,
                     LAMBDA P3 :
                     LET host_end == IF hosted THEN Len(P3.ser) ELSE host_start
                     IN  Let(parse_path(P3, "File", FALSE, host_end, input), LAMBDA pp :
                         Let(parse_query_and_fragment(pp.P, scheme_type, scheme_end, pp.rest),
                             LAMBDA qf :
                             MkUrl(qf.P, scheme_end, host_start, host_start, host_end,
                                   host, None, host_end, qf.query_start,
                                   qf.fragment_start))))

\* the arm of parse_file for an input that starts with '/' or '\'
parse_file_slash(P, input, scheme_type, base_file_url) ==
    LET first == split_first(input)
        P1    == log_violation_if(P, "Backslash", first.c = Some(BACKSLASH))
        next  == split_first(first.rest)
    IN  IF next.c = Some(SLASH) \/ next.c = Some(BACKSLASH)
        THEN \* file host state
             LET P2 == Push(log_violation_if(P1, "Backslash", next.c = Some(BACKSLASH)),
                            FILE_SLASH_SLASH)
                 scheme_end == 4
                 host_start == 7
             IN  Let(parse_file_host(P2, next.rest), LAMBDA fh :
                 IF ~fh.ok THEN Err(fh.P, fh.err)
                 ELSE LET host_end == Len(fh.P.ser)
                          has_host == fh.host # HostInternalNone
                      IN  Let(IF fh.has_host
                              THEN parse_path_start(fh.P, "File", has_host, fh.rest)
                              ELSE parse_path(Push(fh.P, <<SLASH>>), "File", has_host,
                                              Len(fh.P.ser), fh.rest),
                              LAMBDA pp :
                              LET P3 == IF ~pp.has_host
                                        THEN SetSer(pp.P, Slice(pp.P.ser, 0, host_start)
                                                          \o SliceFrom(pp.P.ser, host_end))
                                        ELSE pp.P
                                  host_end1 == IF ~pp.has_host THEN host_start ELSE host_end
                                  host1 == IF ~pp.has_host THEN HostInternalNone ELSE fh.host
                              IN  Let(parse_query_and_fragment(P3, scheme_type, scheme_end,
                                                               pp.rest),
                                      LAMBDA qf :
                                      MkUrl(qf.P, scheme_end, host_start, host_start,
                                            host_end1, host1, None, host_end1,
                                            qf.query_start, qf.fragment_start))))
        ELSE LET P2 == Push(P1, FILE_SLASH_SLASH)
                 scheme_end == 4
                 host_start == 7
                 inherit == /\ ~starts_with_windows_drive_letter_segment(first.rest)
                            /\ base_file_url # None
                 base_url == base_file_url[1]
                 first_segment == UrlFirstPathSegment(base_url)
                 drive == /\ inherit /\ first_segment # None
                          /\ is_normalized_windows_drive_letter(first_segment[1])
                 hosted == inherit /\ first_segment # None /\ ~drive
                           /\ UrlHostStr(base_url) # None
                 host == IF hosted THEN base_url.host ELSE HostInternalNone
             IN  Let(IF inherit /\ first_segment = None
                     THEN Panic(P2, "path_segments().unwrap()")
                     ELSE IF drive THEN Push(P2, <<SLASH>> \o first_segment[1])
                     ELSE IF hosted THEN Push(P2, UrlHostStr(base_url)[1])
                     ELSE P2,
                     LAMBDA P3 :
                     LET host_end == IF hosted THEN Len(P3.ser) ELSE host_start
                     IN  Let(parse_path(P3, "File", FALSE, host_end, input), LAMBDA pp :
                         Let(parse_query_and_fragment(pp.P, scheme_type, scheme_end, pp.rest),
                             LAMBDA qf :
                             MkUrl(qf.P, scheme_end, host_start, host_start, host_end,
                                   host, None, host_end, qf.query_start,
                                   qf.fragment_start))))

\* the arms of parse_file that emit "file:///" and parse the path from the input
parse_file_no_base(P, input) ==
    LET P1 == Push(P, FILE_SLASH_SLASH \o <<SLASH>>)
        scheme_end == 4
        path_start == 7
    IN  Let(parse_path(P1, "File", FALSE, path_start, input), LAMBDA pp :
        Let(parse_query_and_fragment(pp.P, "File", scheme_end, pp.rest), LAMBDA qf :
            MkUrl(qf.P, scheme_end, path_start, path_start, path_start,
                  HostInternalNone, None, path_start, qf.query_start,
                  qf.fragment_start)))

\* the arms shared by parse_file and parse_relative: empty input and '?'
copy_base_except_fragment(P, base_url) ==
    LET P1 == Push(P, BeforeFragment(base_url))
    IN  Ok(P1, [base_url EXCEPT !.serialization = P1.ser, !.fragment_start = None])

copy_base_up_to_query(P, input, scheme_type, base_url) ==
    Let(parse_query_and_fragment(Push(P, BeforeQuery(base_url)), scheme_type,
                                 base_url.scheme_end, input),
        LAMBDA qf :
        Ok(qf.P, [base_url EXCEPT !.serialization = qf.P.ser,
                                  !.query_start = qf.query_start,
                                  !.fragment_start = qf.fragment_start]))

parse_file(P, input, scheme_type, base_file_url) ==
    LET first == split_first(input)
    IN  IF first.c = Some(SLASH) \/ first.c = Some(BACKSLASH)
        THEN parse_file_slash(P, input, scheme_type, base_file_url)
        ELSE IF base_file_url # None /\ first.c = None
        THEN copy_base_except_fragment(P, base_file_url[1])
        ELSE IF base_file_url # None /\ first.c = Some(QUESTION)
        THEN copy_base_up_to_query(P, input, scheme_type, base_file_url[1])
        ELSE IF base_file_url # None /\ first.c = Some(HASH)
        THEN fragment_only(P, base_file_url[1], input)
        ELSE IF base_file_url # None /\ ~starts_with_windows_drive_letter_segment(input)
        THEN LET base_url == base_file_url[1]
             IN  Let(parse_path(shorten_path(Push(P, BeforeQuery(base_url)), "File",
                                             base_url.path_start),
                                "File", TRUE, base_url.path_start, input),
                     LAMBDA pp :
                     with_query_and_fragment(pp.P, "File", base_url.scheme_end,
                         base_url.username_end, base_url.host_start,
                         base_url.host_end, base_url.host, base_url.port,
                         base_url.path_start, pp.rest))
        ELSE parse_file_no_base(P, input)

parse_relative(P, input, scheme_type, base_url) ==
    LET first == split_first(input)
        cm == count_matching_slashes(input)
    IN  IF first.c = None THEN copy_base_except_fragment(P, base_url)
        ELSE IF first.c = Some(QUESTION)
        THEN copy_base_up_to_query(P, input, scheme_type, base_url)
        ELSE IF first.c = Some(HASH) THEN fragment_only(P, base_url, input)
        ELSE IF (first.c = Some(SLASH) \/ first.c = Some(BACKSLASH)) /\ cm.count >= 2
        THEN LET P1 == log_violation_if(P, "ExpectedDoubleSlash",
                           take_while_slashes(input) # <<SLASH, SLASH>>)
                 scheme_end == base_url.scheme_end
                 P2 == Push(P1, Slice(base_url.serialization, 0, scheme_end + 1))
                 after_prefix == split_prefix(input, <<SLASH, SLASH>>)
             IN  after_double_slash(P2,
                     IF after_prefix # None THEN after_prefix[1] ELSE cm.rest,
                     scheme_type, scheme_end)
        ELSE Let(IF first.c = Some(SLASH) \/ first.c = Some(BACKSLASH)
                 THEN LET path_start == base_url.path_start
                      IN  parse_path(Push(P, Slice(base_url.serialization, 0, path_start)
                                             \o <<SLASH>>),
                                     scheme_type, TRUE, path_start, first.rest)
                 ELSE LET P1 == pop_path(Push(P, BeforeQuery(base_url)), scheme_type,
                                         base_url.path_start)
                      IN  parse_path(IF /\ Len(P1.ser) = base_url.path_start
                                        /\ (is_special(SchemeTypeFrom(UrlScheme(base_url)))
                                            \/ ~is_empty(input))
                                     THEN Push(P1, <<SLASH>>) ELSE P1,
                                     scheme_type, TRUE, base_url.path_start,
                                     IF first.c = Some(SLASH) THEN first.rest ELSE input),
                 LAMBDA pp :
                 with_query_and_fragment(pp.P, scheme_type, base_url.scheme_end,
                     base_url.username_end, base_url.host_start, base_url.host_end,
                     base_url.host, base_url.port, base_url.path_start, pp.rest))

parse_with_scheme(P, input, base) ==
    LET scheme_end == Len(P.ser)
        scheme_type == SchemeTypeFrom(P.ser)
        P1 == Push(P, <<COLON>>)
    IN  IF scheme_type = "File"
        THEN LET P2 == log_violation_if(P1, "ExpectedFileDoubleSlash",
                           ~starts_with(input, <<SLASH, SLASH>>))
                 base_file_url == IF base # None /\ UrlScheme(base[1]) = FILE_SCHEME
                                  THEN base ELSE None
             IN  parse_file(SetSer(P2, <<>>), input, scheme_type, base_file_url)
        ELSE IF scheme_type = "SpecialNotFile"
        THEN LET cm == count_matching_slashes(input)
             IN  IF /\ base # None
                    /\ cm.count < 2
                    /\ UrlScheme(base[1]) = Slice(P1.ser, 0, scheme_end)
                 THEN parse_relative(SetSer(P1, <<>>), input, scheme_type, base[1])
                 ELSE after_double_slash(
                          log_violation_if(P1, "ExpectedDoubleSlash",
                              take_while_slashes(input) # <<SLASH, SLASH>>),
                          cm.rest, scheme_type, scheme_end)
        ELSE parse_non_special(P1, input, scheme_type, scheme_end)

\* a panic aborts the parse: there is no result
Outcome(r) == IF r.panics # {} THEN [r EXCEPT !.ok = FALSE, !.err = "panic", !.url = NoUrl]
              ELSE r

\* parse_url, but the cannot-be-a-base test comes before the '#' test
parse_url_BaseShapeFirst(base, original_input, has_vfn) ==
    LET tr == new_trim_c0_control_and_space(original_input, has_vfn)
        input == tr.input
        P  == [NewParser(has_vfn) EXCEPT !.viol = tr.viol]
    IN  Let(parse_scheme(P, input), LAMBDA sch :
        Outcome(
          IF sch.ok THEN parse_with_scheme(sch.P, sch.rest, base)
          ELSE IF base # None
          THEN (IF UrlCannotBeABase(base[1])
                THEN Err(sch.P, "RelativeUrlWithCannotBeABaseBase")
                ELSE IF starts_with(input, <<HASH>>) THEN fragment_only(sch.P, base[1], input)
                ELSE IF is_file(SchemeTypeFrom(UrlScheme(base[1])))
                THEN parse_file(sch.P, input, "File", base)
                ELSE parse_relative(sch.P, input, SchemeTypeFrom(UrlScheme(base[1])),
                                    base[1]))
          ELSE Err(sch.P, "RelativeUrlWithoutBase")))

\* Parser::parse_url; base is an Option<Url>
parse_url(base, original_input, has_vfn) ==
    LET tr == new_trim_c0_control_and_space(original_input, has_vfn)
        input == tr.input
        P  == [NewParser(has_vfn) EXCEPT !.viol = tr.viol]
    IN  Let(parse_scheme(P, input), LAMBDA sch :
        Outcome(
          IF sch.ok THEN parse_with_scheme(sch.P, sch.rest, base)
          ELSE IF base # None
          THEN (IF starts_with(input, <<HASH>>) THEN fragment_only(sch.P, base[1], input)
                ELSE IF UrlCannotBeABase(base[1])
                THEN Err(sch.P, "RelativeUrlWithCannotBeABaseBase")
                ELSE IF is_file(SchemeTypeFrom(UrlScheme(base[1])))
                THEN parse_file(sch.P, input, "File", base)
                ELSE parse_relative(sch.P, input, SchemeTypeFrom(UrlScheme(base[1])),
                                    base[1]))
          ELSE Err(sch.P, "RelativeUrlWithoutBase")))

(***************************************************************************)
(* The system: a caller chooses a base URL (itself the result of a parse)  *)
(* and types an input, parses it, and parses the resulting serialization   *)
(* again.  Inputs are typed token by token; the tokens and the starting    *)
(* texts are grouped in families, one per area of the parser.              *)
(***************************************************************************)
VARIABLES family, base, input, typed, pc, result, reparsed

\* the codec's caller: the bytes and the set it chose, where it stands, the
\* encoder and the items it yielded, what the decoder was made of, the
\* decoder and the bytes it yielded, the size hint last read, the second
\* encoding, and the materialized value
VARIABLES plain, policy, step, encoder, yielded, decoding, text, decoder,
          decoded, hint, again, cow

url_vars == <<family, base, input, typed, pc, result, reparsed>>

codec_vars == <<plain, policy, step, encoder, yielded, decoding, text, decoder,
                decoded, hint, again, cow>>

vars == <<url_vars, codec_vars>>

\* the most tokens typed after the starting text
MaxTyped == 3

\* the tokens of family "dots":  /  \  .  ..  %2e  %2E  x  TAB
Tokens_dots ==
    { <<47>>,
      <<92>>,
      <<46>>,
      <<46, 46>>,
      <<37, 50, 101>>,
      <<37, 50, 69>>,
      <<120>>,
      <<9>> }
\* its starts, (base text, starting text):
\*   (no base, "http://a/")
\*   (no base, "a:/")
\*   (no base, "a://h/x/")
\*   (no base, "file:///")
\*   (http://a/b/c, "")
\*   (a:/b/c, "")
\*   (a://h/b/c, "")
\*   (file:///C:/b/c, "")
Starts_dots ==
    { [base |-> None, text |-> <<104, 116, 116, 112, 58, 47, 47, 97, 47>>],
      [base |-> None, text |-> <<97, 58, 47>>],
      [base |-> None, text |-> <<97, 58, 47, 47, 104, 47, 120, 47>>],
      [base |-> None, text |-> <<102, 105, 108, 101, 58, 47, 47, 47>>],
      [base |-> Some(<<104, 116, 116, 112, 58, 47, 47, 97, 47, 98, 47, 99>>), text |-> <<>>],
      [base |-> Some(<<97, 58, 47, 98, 47, 99>>), text |-> <<>>],
      [base |-> Some(<<97, 58, 47, 47, 104, 47, 98, 47, 99>>), text |-> <<>>],
      [base |-> Some(<<102, 105, 108, 101, 58, 47, 47, 47, 67, 58, 47, 98, 47, 99>>), text |-> <<>>] }

\* the tokens of family "port":  0  80  443  21  65535  65536  /  \  x  CR
Tokens_port ==
    { <<48>>,
      <<56, 48>>,
      <<52, 52, 51>>,
      <<50, 49>>,
      <<54, 53, 53, 51, 53>>,
      <<54, 53, 53, 51, 54>>,
      <<47>>,
      <<92>>,
      <<120>>,
      <<13>> }
\* its starts, (base text, starting text):
\*   (no base, "http://h:")
\*   (no base, "https://h:")
\*   (no base, "ftp://h:")
\*   (no base, "ws://h:")
\*   (no base, "wss://h:")
\*   (no base, "a://h:")
Starts_port ==
    { [base |-> None, text |-> <<104, 116, 116, 112, 58, 47, 47, 104, 58>>],
      [base |-> None, text |-> <<104, 116, 116, 112, 115, 58, 47, 47, 104, 58>>],
      [base |-> None, text |-> <<102, 116, 112, 58, 47, 47, 104, 58>>],
      [base |-> None, text |-> <<119, 115, 58, 47, 47, 104, 58>>],
      [base |-> None, text |-> <<119, 115, 115, 58, 47, 47, 104, 58>>],
      [base |-> None, text |-> <<97, 58, 47, 47, 104, 58>>] }

\* the tokens of family "authority":  u  :  @  /  \  8  TAB  ?
Tokens_authority ==
    { <<117>>,
      <<58>>,
      <<64>>,
      <<47>>,
      <<92>>,
      <<56>>,
      <<9>>,
      <<63>> }
\* its starts, (base text, starting text):
\*   (no base, "http://")
\*   (no base, "a://")
\*   (http://h/p, "//")
\*   (no base, "http:")
\*   (no base, "http://u:")
\*   (no base, "a://:")
Starts_authority ==
    { [base |-> None, text |-> <<104, 116, 116, 112, 58, 47, 47>>],
      [base |-> None, text |-> <<104, 116, 116, 112, 58, 47, 47, 117, 58>>],
      [base |-> None, text |-> <<97, 58, 47, 47, 58>>],
      [base |-> None, text |-> <<97, 58, 47, 47>>],
      [base |-> Some(<<104, 116, 116, 112, 58, 47, 47, 104, 47, 112>>), text |-> <<47, 47>>],
      [base |-> None, text |-> <<104, 116, 116, 112, 58>>] }

\* the tokens of family "file":  /  \  C:  C|  h  :  ..  TAB  ?
Tokens_file ==
    { <<47>>,
      <<92>>,
      <<67, 58>>,
      <<67, 124>>,
      <<104>>,
      <<58>>,
      <<46, 46>>,
      <<9>>,
      <<63>> }
\* its starts, (base text, starting text):
\*   (no base, "file:")
\*   (file:///C:/b/c, "")
\*   (file://h/b/c, "")
\*   (file:///C:/b/c, "file:")
\*   (http://h/p, "file:")
\*   (no base, "file://")
\*   (no base, "file://h")
Starts_file ==
    { [base |-> None, text |-> <<102, 105, 108, 101, 58>>],
      [base |-> None, text |-> <<102, 105, 108, 101, 58, 47, 47>>],
      [base |-> None, text |-> <<102, 105, 108, 101, 58, 47, 47, 104>>],
      [base |-> Some(<<102, 105, 108, 101, 58, 47, 47, 47, 67, 58, 47, 98, 47, 99>>), text |-> <<>>],
      [base |-> Some(<<102, 105, 108, 101, 58, 47, 47, 104, 47, 98, 47, 99>>), text |-> <<>>],
      [base |-> Some(<<102, 105, 108, 101, 58, 47, 47, 47, 67, 58, 47, 98, 47, 99>>), text |-> <<102, 105, 108, 101, 58>>],
      [base |-> Some(<<104, 116, 116, 112, 58, 47, 47, 104, 47, 112>>), text |-> <<102, 105, 108, 101, 58>>] }

\* the tokens of family "scheme":  hT  tP:  a  +1  :  /  x  TAB  SPACE  #
Tokens_scheme ==
    { <<104, 84>>,
      <<116, 80, 58>>,
      <<97>>,
      <<43, 49>>,
      <<58>>,
      <<47>>,
      <<120>>,
      <<9>>,
      <<32>>,
      <<35>> }
\* its starts, (base text, starting text):
\*   (no base, "")
\*   (http://h/p?q#f, "")
\*   (a:b, "")
Starts_scheme ==
    { [base |-> None, text |-> <<>>],
      [base |-> Some(<<104, 116, 116, 112, 58, 47, 47, 104, 47, 112, 63, 113, 35, 102>>), text |-> <<>>],
      [base |-> Some(<<97, 58, 98>>), text |-> <<>>] }

\* the tokens of family "opaque":  /  .  x  LF  ?  #  SPACE  \
Tokens_opaque ==
    { <<47>>,
      <<46>>,
      <<120>>,
      <<10>>,
      <<63>>,
      <<35>>,
      <<32>>,
      <<92>> }
\* its starts, (base text, starting text):
\*   (no base, "a:")
\*   (a:/.//x, "")
\*   (a:/b, "")
\*   (a://h/b, "")
\*   (a:b, "")
Starts_opaque ==
    { [base |-> None, text |-> <<97, 58>>],
      [base |-> Some(<<97, 58, 47, 46, 47, 47, 120>>), text |-> <<>>],
      [base |-> Some(<<97, 58, 47, 98>>), text |-> <<>>],
      [base |-> Some(<<97, 58, 47, 47, 104, 47, 98>>), text |-> <<>>],
      [base |-> Some(<<97, 58, 98>>), text |-> <<>>] }

Families == {"dots", "port", "authority", "file", "scheme", "opaque"}

Tokens(f) ==
    IF f = "dots" THEN Tokens_dots
    ELSE IF f = "port" THEN Tokens_port
    ELSE IF f = "authority" THEN Tokens_authority
    ELSE IF f = "file" THEN Tokens_file
    ELSE IF f = "scheme" THEN Tokens_scheme
    ELSE Tokens_opaque

Starts(f) ==
    IF f = "dots" THEN Starts_dots
    ELSE IF f = "port" THEN Starts_port
    ELSE IF f = "authority" THEN Starts_authority
    ELSE IF f = "file" THEN Starts_file
    ELSE IF f = "scheme" THEN Starts_scheme
    ELSE Starts_opaque

NoResult == Err(NewParser(TRUE), "")

\* the codec's caller before it has done anything
CodecIn(steps, sets) ==
    /\ plain = <<>>
    /\ policy \in sets
    /\ step \in steps
    /\ encoder = [bytes |-> <<>>, ascii_set |-> {}]
    /\ yielded = <<>>
    /\ decoding = "none"
    /\ text = <<>>
    /\ decoder = <<>>
    /\ decoded = <<>>
    /\ hint = [lower |-> 0, upper |-> Some(0)]
    /\ again = [ascii_set |-> {}, twice |-> <<>>, once |-> <<>>]
    /\ cow = [cow |-> "Borrowed", value |-> <<>>]

\* a base URL is the record Url::parse returns for the base text
BaseOf(b) == IF b = None THEN None ELSE Some(parse_url(None, b[1], TRUE).url)

InitIn(fs) ==
    /\ family \in fs
    /\ \E s \in Starts(family) : base = BaseOf(s.base) /\ input = s.text
    /\ typed = 0
    /\ pc = "input"
    /\ result = NoResult
    /\ reparsed = NoResult
    /\ CodecIn({"idle"}, {{}})

Init == InitIn(Families)

Type(tok) ==
    /\ pc = "input"
    /\ typed < MaxTyped
    /\ input' = input \o tok
    /\ typed' = typed + 1
    /\ UNCHANGED <<family, base, pc, result, reparsed>>
    /\ UNCHANGED codec_vars

\* Url::options().base_url(base).syntax_violation_callback(..).parse(input)
Parse ==
    /\ pc = "input"
    /\ result' = parse_url(base, input, TRUE)
    /\ pc' = "parsed"
    /\ UNCHANGED <<family, base, input, typed, reparsed>>
    /\ UNCHANGED codec_vars

\* Url::parse(result.as_str())
Reparse ==
    /\ pc = "parsed"
    /\ result.ok
    /\ reparsed' = parse_url(None, result.url.serialization, TRUE)
    /\ pc' = "reparsed"
    /\ UNCHANGED <<family, base, input, typed, result>>
    /\ UNCHANGED codec_vars

Next ==
    \/ \E tok \in Tokens(family) : Type(tok)
    \/ Parse
    \/ Reparse

Spec == Init /\ [][Next]_vars

TypeOK == pc \in {"input", "parsed", "reparsed"}

(***************************************************************************)
(* The codec's caller: it builds a byte sequence and picks a set, then     *)
(* encodes it item by item and decodes the text it got, or encodes that    *)
(* text again under a larger set, or decodes the bytes themselves, or      *)
(* materializes the encoding or the decoding into a Cow.                   *)
(***************************************************************************)
\* the most bytes of a sequence
MaxBytes == 4

\* the bytes a sequence is made of:  space  %  4  A  f  0xC3
Bytes == {SPACE, PERCENT, 52, 65, 102, 195}

\* the sets: EMPTY, CONTROLS, CONTROLS with space, with space and '%', with
\* space and '4', and NON_ALPHANUMERIC
AsciiSets ==
    { {},
      CONTROLS,
      CONTROLS \cup {SPACE},
      CONTROLS \cup {SPACE, PERCENT},
      CONTROLS \cup {SPACE, 52},
      NON_ALPHANUMERIC }

CodecInit ==
    /\ family = "dots" /\ base = None /\ input = <<>> /\ typed = 0
    /\ pc = "idle" /\ result = NoResult /\ reparsed = NoResult
    /\ CodecIn({"input"}, AsciiSets)

AddByte(b) ==
    /\ step = "input"
    /\ Len(plain) < MaxBytes
    /\ plain' = plain \o <<b>>
    /\ UNCHANGED <<policy, step, encoder, yielded, decoding, text, decoder,
                   decoded, hint, again, cow>>
    /\ UNCHANGED url_vars

\* let encoded = percent_encode(plain, policy); encoded.size_hint()
Encode ==
    /\ step = "input"
    /\ encoder' = [bytes |-> plain, ascii_set |-> policy]
    /\ hint' = PercentEncode_size_hint(encoder')
    /\ step' = "encoding"
    /\ UNCHANGED <<plain, policy, yielded, decoding, text, decoder, decoded,
                   again, cow>>
    /\ UNCHANGED url_vars

\* encoded.next(); encoded.size_hint(); the items make the text
EncodeNext ==
    /\ step = "encoding"
    /\ LET n == PercentEncode_next(encoder)
       IN  /\ encoder' = n.self
           /\ yielded' = IF n.item = None THEN yielded ELSE Append(yielded, n.item[1])
           /\ text' = IF n.item = None THEN text ELSE text \o n.item[1]
           /\ step' = IF n.item = None THEN "encoded" ELSE "encoding"
    /\ hint' = PercentEncode_size_hint(encoder')
    /\ UNCHANGED <<plain, policy, decoding, decoder, decoded, again, cow>>
    /\ UNCHANGED url_vars

\* let decoded = percent_decode(bytes); decoded.size_hint(), of the text the
\* encoder yielded or of the bytes themselves
Decode(what) ==
    /\ step = (IF what = "encoded" THEN "encoded" ELSE "input")
    /\ decoding' = what
    /\ text' = (IF what = "encoded" THEN text ELSE plain)
    /\ decoder' = text'
    /\ hint' = PercentDecode_size_hint(decoder')
    /\ step' = "decoding"
    /\ UNCHANGED <<plain, policy, encoder, yielded, decoded, again, cow>>
    /\ UNCHANGED url_vars

\* decoded.next(); decoded.size_hint()
DecodeNext ==
    /\ step = "decoding"
    /\ LET n == PercentDecode_next(decoder)
       IN  /\ decoder' = n.bytes
           /\ decoded' = IF n.item = None THEN decoded ELSE Append(decoded, n.item[1])
           /\ step' = IF n.item = None THEN "decoded" ELSE "decoding"
    /\ hint' = PercentDecode_size_hint(decoder')
    /\ UNCHANGED <<plain, policy, encoder, yielded, decoding, text, again, cow>>
    /\ UNCHANGED url_vars

\* percent_encode(text.as_bytes(), ascii_set).collect() of the text the
\* encoder yielded, and percent_encode(plain, ascii_set).collect(), for a
\* set that holds the first one
EncodeAgain(ascii_set) ==
    /\ step = "encoded"
    /\ policy \subseteq ascii_set
    /\ again' = [ascii_set |-> ascii_set,
                 twice |-> percent_encode(text, ascii_set),
                 once  |-> percent_encode(plain, ascii_set)]
    /\ step' = "reencoded"
    /\ UNCHANGED <<plain, policy, encoder, yielded, decoding, text, decoder,
                   decoded, hint, cow>>
    /\ UNCHANGED url_vars

\* Cow::from(percent_encode(plain, policy))
EncodeIntoCow ==
    /\ step = "input"
    /\ cow' = Cow_from_PercentEncode([bytes |-> plain, ascii_set |-> policy])
    /\ step' = "cow_encoded"
    /\ UNCHANGED <<plain, policy, encoder, yielded, decoding, text, decoder,
                   decoded, hint, again>>
    /\ UNCHANGED url_vars

\* Cow::from(percent_decode(plain))
DecodeIntoCow ==
    /\ step = "input"
    /\ cow' = Cow_from_PercentDecode(plain)
    /\ step' = "cow_decoded"
    /\ UNCHANGED <<plain, policy, encoder, yielded, decoding, text, decoder,
                   decoded, hint, again>>
    /\ UNCHANGED url_vars

CodecNext ==
    \/ \E b \in Bytes : AddByte(b)
    \/ Encode
    \/ EncodeNext
    \/ \E what \in {"plain", "encoded"} : Decode(what)
    \/ DecodeNext
    \/ \E ascii_set \in AsciiSets : EncodeAgain(ascii_set)
    \/ EncodeIntoCow
    \/ DecodeIntoCow

CodecSpec == CodecInit /\ [][CodecNext]_vars

(***************************************************************************)
(* Vocabulary of the properties.                                           *)
(***************************************************************************)
Parsed == pc \in {"parsed", "reparsed"} /\ result.ok
U == result.url

\* s without its tab, LF and CR characters
RECURSIVE StripTabNewline(_)
StripTabNewline(s) ==
    IF s = <<>> THEN <<>>
    ELSE (IF Head(s) \in {TAB, LF, CR} THEN <<>> ELSE <<Head(s)>>)
         \o StripTabNewline(Tail(s))

OrNext(opt, next) == IF opt = None THEN next ELSE opt[1]

\* how a record is read: its scheme, its path (from path_start up to the
\* query, the fragment or the end), and whether it is cannot-be-a-base (the
\* character after the scheme's ':' is not '/')
SchemeOf(u) == SubSeq(u.serialization, 1, u.scheme_end)

PathOf(u) ==
    SubSeq(u.serialization, u.path_start + 1,
           OrNext(u.query_start, OrNext(u.fragment_start, Len(u.serialization))))

CannotBeABase(u) ==
    ~(Len(u.serialization) > u.scheme_end + 1
        /\ u.serialization[u.scheme_end + 2] = SLASH)

\* the '/'-delimited segments of a path that begins with '/'
RECURSIVE SegmentsOf(_)
SegmentsOf(path) ==
    IF path = <<>> THEN {}
    ELSE LET rest == Tail(path)
             sl   == {i \in 1..Len(rest) : rest[i] = SLASH}
         IN  IF sl = {} THEN {rest}
             ELSE LET i == CHOOSE k \in sl : \A j \in sl : k <= j
                  IN  {SubSeq(rest, 1, i - 1)} \cup SegmentsOf(SubSeq(rest, i, Len(rest)))

\* the spellings of a dot: "." "%2e" "%2E"; a dot segment is one or two of them
DotSpellings == {<<DOT>>, <<PERCENT, 50, 101>>, <<PERCENT, 50, 69>>}

DotSegments == DotSpellings \cup {a \o b : a \in DotSpellings, b \in DotSpellings}

\* the special schemes: http https ws wss ftp file
SpecialSchemes ==
    {<<104, 116, 116, 112>>, <<104, 116, 116, 112, 115>>, <<119, 115>>, <<119, 115, 115>>, <<102, 116, 112>>, <<102, 105, 108, 101>>}

\* the default port the specification gives a scheme: http and ws 80, https
\* and wss 443, ftp 21
SpecifiedDefaultPort(scheme) ==
    IF scheme \in {<<104, 116, 116, 112>>, <<119, 115>>} THEN Some(80)
    ELSE IF scheme \in {<<104, 116, 116, 112, 115>>, <<119, 115, 115>>} THEN Some(443)
    ELSE IF scheme = <<102, 116, 112>> THEN Some(21)
    ELSE None

\* a number in decimal, and the number a string of digits writes
RECURSIVE Decimal(_)
Decimal(n) == IF n < 10 THEN <<48 + n>> ELSE Decimal(n \div 10) \o <<48 + (n % 10)>>

RECURSIVE DecimalValue(_)
DecimalValue(d) ==
    IF d = <<>> THEN 0 ELSE 10 * DecimalValue(SubSeq(d, 1, Len(d) - 1)) + (d[Len(d)] - 48)

RECURSIVE DropLeadingZeros(_)
DropLeadingZeros(d) ==
    IF Len(d) > 1 /\ Head(d) = 48 THEN DropLeadingZeros(Tail(d)) ELSE d

RECURSIVE DigitPrefix(_)
DigitPrefix(s) ==
    IF s # <<>> /\ Head(s) \in Digits THEN <<Head(s)>> \o DigitPrefix(Tail(s)) ELSE <<>>

\* In the family "port" the input is scheme://h: followed by the tokens typed,
\* none of which holds a ':': the port written in the input is the digits
\* that follow the last ':', tab, LF and CR apart
WrittenPort ==
    LET t  == StripTabNewline(input)
        cs == {i \in 1..Len(t) : t[i] = COLON}
        i  == CHOOSE k \in cs : \A j \in cs : j <= k
    IN  IF cs = {} THEN <<>> ELSE DigitPrefix(SubSeq(t, i + 1, Len(t)))

\* The input, with its leading and trailing C0 controls and spaces and its
\* tabs, LFs and CRs removed, is scheme ':' rest with a scheme that is not
\* special and a rest that does not start with '/'
OpaqueInput ==
    LET t  == StripTabNewline(TrimEnd(TrimStart(input)))
        cs == {i \in 1..Len(t) : t[i] = COLON}
        i  == CHOOSE k \in cs : \A j \in cs : k <= j
    IN  /\ cs # {}
        /\ i > 1
        /\ t[1] \in UpperAlpha \cup LowerAlpha
        /\ \A j \in 1..(i - 1) :
              t[j] \in UpperAlpha \cup LowerAlpha \cup Digits \cup {PLUS, MINUS, DOT}
        /\ [j \in 1..(i - 1) |-> to_ascii_lowercase(t[j])] \notin SpecialSchemes
        /\ (i = Len(t) \/ t[i + 1] # SLASH)

\* a tab, LF or CR of the input that has a character above space before it
\* and after it: one that is left once the input is trimmed
InteriorTabOrNewline ==
    \E i \in 1..Len(input) :
        /\ input[i] \in {TAB, LF, CR}
        /\ \E j \in 1..(i - 1) : input[j] > SPACE
        /\ \E k \in (i + 1)..Len(input) : input[k] > SPACE

\* C1: the offsets of a returned record are ordered: 0 <= scheme_end <=
\* username_end <= host_start <= host_end <= path_start <= query_start (when
\* present) <= fragment_start (when present) <= len(serialization)
C1_OffsetsOrdered ==
    Parsed =>
        LET n  == Len(U.serialization)
            fs == OrNext(U.fragment_start, n)
            qs == OrNext(U.query_start, fs)
        IN  /\ 0 <= U.scheme_end
            /\ U.scheme_end <= U.username_end
            /\ U.username_end <= U.host_start
            /\ U.host_start <= U.host_end
            /\ U.host_end <= U.path_start
            /\ U.path_start <= qs
            /\ qs <= fs
            /\ fs <= n

\* a record with a query, returned where the base held the "/." prefix and
\* the fixup removed it, moving path_start back by 2
C1_Witness ==
    /\ Parsed
    /\ base # None
    /\ base[1].path_start = base[1].scheme_end + 3
    /\ base[1].host = HostInternalNone
    /\ U.path_start = U.scheme_end + 1
    /\ U.query_start # None

\* C2: parsing the serialization of a returned record again, with no base,
\* succeeds and returns the identical record
C2_Idempotent ==
    pc = "reparsed" => reparsed.ok /\ reparsed.url = result.url

\* C3: the path of a returned URL that is not cannot-be-a-base has no
\* segment that is '.', '..' or a percent-encoded spelling of them
C3_NoDotSegments ==
    (Parsed /\ ~CannotBeABase(U)) =>
        SegmentsOf(PathOf(U)) \cap DotSegments = {}

\* C4: a returned serialization holds no tab, LF or CR
C4_NoTabNewline ==
    Parsed => \A i \in 1..Len(U.serialization) : U.serialization[i] \notin {TAB, LF, CR}

\* a record returned for an input with a tab, LF or CR between two
\* characters of a path segment
C4_Witness ==
    /\ Parsed
    /\ family = "dots"
    /\ \E i \in 2..(Len(input) - 1) :
          /\ input[i] \in {TAB, LF, CR}
          /\ input[i - 1] = 120
          /\ input[i + 1] = 120

\* C5 as stated: a tab, LF or CR anywhere in the input is reported as
\* TabOrNewlineIgnored
C5_AnyTabReported ==
    (pc # "input" /\ \E i \in 1..Len(input) : input[i] \in {TAB, LF, CR})
        => "TabOrNewlineIgnored" \in result.viol

\* C5 amended: TabOrNewlineIgnored is reported exactly when a tab, LF or CR
\* remains after the leading and trailing C0-control-or-space characters of
\* the input are trimmed, whether the parse succeeds or fails
C5_InteriorTabReported ==
    pc # "input" => (InteriorTabOrNewline <=> "TabOrNewlineIgnored" \in result.viol)

\* a successful parse of an input with an interior tab, LF or CR and a
\* trailing one, both kinds of violation reported
C5_Witness ==
    /\ Parsed
    /\ InteriorTabOrNewline
    /\ input[Len(input)] \in {TAB, LF, CR}
    /\ {"TabOrNewlineIgnored", "C0SpaceIgnored"} \subseteq result.viol

\* C6: a port written in the input that equals the default port of the
\* scheme (http and ws 80, https and wss 443, ftp 21), leading zeros or not,
\* leaves the record's port None and no ":port" in the serialization; any
\* other port written is the record's port and stands in the serialization
\* in decimal after ':'; no record holds the default port of its scheme
C6_DefaultPortElided ==
    Parsed =>
        /\ U.port # None => U.port # SpecifiedDefaultPort(SchemeOf(U))
        /\ (family = "port" /\ WrittenPort # <<>>) =>
              LET v == DecimalValue(DropLeadingZeros(WrittenPort))
                  between == SubSeq(U.serialization, U.host_end + 1, U.path_start)
              IN  IF Some(v) = SpecifiedDefaultPort(SchemeOf(U))
                  THEN U.port = None /\ between = <<>>
                  ELSE U.port = Some(v) /\ between = <<COLON>> \o Decimal(v)

\* a record returned for a default port written with a leading zero
C6_Witness ==
    /\ Parsed
    /\ family = "port"
    /\ Len(WrittenPort) > 1
    /\ Head(WrittenPort) = 48
    /\ Some(DecimalValue(DropLeadingZeros(WrittenPort))) = SpecifiedDefaultPort(SchemeOf(U))
    /\ U.port = None

\* C7: serialization[scheme_end] is ':' and the scheme before it is
\* non-empty, starts with a lowercase letter and holds only lowercase
\* letters, digits, '+', '-' and '.'
C7_SchemeWellFormed ==
    Parsed =>
        /\ U.scheme_end >= 1
        /\ Len(U.serialization) > U.scheme_end
        /\ U.serialization[U.scheme_end + 1] = COLON
        /\ U.serialization[1] \in LowerAlpha
        /\ \A i \in 1..U.scheme_end :
              U.serialization[i] \in LowerAlpha \cup Digits \cup {PLUS, MINUS, DOT}

\* a record returned for an input whose scheme is written with an uppercase
\* letter
C7_Witness ==
    /\ Parsed
    /\ base = None
    /\ \E i \in 1..U.scheme_end : i <= Len(input) /\ input[i] \in UpperAlpha

\* C8 as stated: a record with a host has path_start = host_end
C8_PathStartIsHostEnd ==
    (Parsed /\ U.host.kind # "None") => U.path_start = U.host_end

\* C8 amended: a record with a host has path_start = host_end when it has no
\* port, and otherwise path_start = host_end + 1 + the number of digits of
\* the port, the text between the two being ':' and the port in decimal
C8_PathStartAfterHostAndPort ==
    (Parsed /\ U.host.kind # "None") =>
        /\ U.port = None => U.path_start = U.host_end
        /\ U.port # None =>
              /\ U.path_start = U.host_end + 1 + Len(Decimal(U.port[1]))
              /\ SubSeq(U.serialization, U.host_end + 1, U.path_start)
                   = <<COLON>> \o Decimal(U.port[1])

\* a record with a host and a port
C8_Witness ==
    /\ Parsed
    /\ U.host.kind # "None"
    /\ U.port # None
    /\ U.path_start > U.host_end

\* C9: the path of a returned URL with a special scheme is non-empty and
\* begins with '/'
C9_SpecialPathStartsWithSlash ==
    (Parsed /\ SchemeOf(U) \in SpecialSchemes) =>
        (PathOf(U) # <<>> /\ Head(PathOf(U)) = SLASH)

\* a special URL returned for an input, with no base, that ends in its host:
\* the path is the '/' the parser supplied
C9_Witness ==
    /\ Parsed
    /\ base = None
    /\ SchemeOf(U) \in SpecialSchemes
    /\ U.host.kind # "None"
    /\ input[Len(input)] \notin {SLASH, BACKSLASH, TAB, LF, CR, SPACE}
    /\ PathOf(U) = <<SLASH>>

\* C10: a record returned for an input scheme ':' rest, the scheme not
\* special and the rest, tab, LF and CR apart, not starting with '/', has
\* host None, port None, username_end = host_start = host_end = path_start =
\* scheme_end + 1, and a path that does not begin with '/'
C10_CannotBeABaseShape ==
    (Parsed /\ OpaqueInput) =>
        /\ U.host = HostInternalNone
        /\ U.port = None
        /\ U.username_end = U.scheme_end + 1
        /\ U.host_start = U.scheme_end + 1
        /\ U.host_end = U.scheme_end + 1
        /\ U.path_start = U.scheme_end + 1
        /\ (PathOf(U) = <<>> \/ Head(PathOf(U)) # SLASH)

\* such a record, for an input with a tab, LF or CR right after the ':' and
\* a path after it
C10_Witness ==
    /\ Parsed
    /\ OpaqueInput
    /\ \E i \in 1..(Len(input) - 1) : input[i] = COLON /\ input[i + 1] \in {TAB, LF, CR}
    /\ PathOf(U) # <<>>

\* the input as the parser reads it: without its leading and trailing C0
\* controls and spaces and without its tabs, LFs and CRs
CleanInput == StripTabNewline(TrimEnd(TrimStart(input)))

\* the input has a scheme: a letter, then letters, digits, '+', '-' and '.',
\* then ':'
InputHasScheme ==
    LET t  == CleanInput
        cs == {i \in 1..Len(t) : t[i] = COLON}
        i  == CHOOSE k \in cs : \A j \in cs : k <= j
    IN  /\ cs # {}
        /\ i > 1
        /\ t[1] \in UpperAlpha \cup LowerAlpha
        /\ \A j \in 1..(i - 1) :
              t[j] \in UpperAlpha \cup LowerAlpha \cup Digits \cup {PLUS, MINUS, DOT}

\* the text of a record before its fragment
BeforeFragmentOf(u) ==
    SubSeq(u.serialization, 1, OrNext(u.fragment_start, Len(u.serialization)))

\* r is the fragment-only resolution of the input against the record b: b's
\* text before its fragment, then '#' and a fragment, every other offset b's
FragmentOnlyOf(r, b) ==
    /\ r.ok
    /\ r.url.fragment_start = Some(Len(BeforeFragmentOf(b)))
    /\ Len(r.url.serialization) > Len(BeforeFragmentOf(b))
    /\ SubSeq(r.url.serialization, 1, Len(BeforeFragmentOf(b)) + 1)
         = BeforeFragmentOf(b) \o <<HASH>>
    /\ [r.url EXCEPT !.serialization = <<>>, !.fragment_start = None]
         = [b EXCEPT !.serialization = <<>>, !.fragment_start = None]

\* two results are the same outcome: the same record, or the same error
SameOutcome(r, q) == r.ok = q.ok /\ r.err = q.err /\ r.url = q.url

\* C11: an input without a scheme is settled in this order: without a base
\* it is Err(RelativeUrlWithoutBase); with a base and a leading '#' it is the
\* fragment-only resolution, cannot-be-a-base base included; otherwise with a
\* cannot-be-a-base base it is Err(RelativeUrlWithCannotBeABaseBase);
\* otherwise it is what parse_file gives for a file base and what
\* parse_relative gives for any other base
C11_NoSchemeOrder ==
    (pc # "input" /\ ~InputHasScheme) =>
        LET t == TrimEnd(TrimStart(input))
        IN  IF base = None
            THEN ~result.ok /\ result.err = "RelativeUrlWithoutBase"
            ELSE IF CleanInput # <<>> /\ CleanInput[1] = HASH
            THEN FragmentOnlyOf(result, base[1])
            ELSE IF CannotBeABase(base[1])
            THEN ~result.ok /\ result.err = "RelativeUrlWithCannotBeABaseBase"
            ELSE IF SchemeOf(base[1]) = <<102, 105, 108, 101>>
            THEN SameOutcome(result,
                     Outcome(parse_file(NewParser(FALSE), t, "File", base)))
            ELSE SameOutcome(result,
                     Outcome(parse_relative(NewParser(FALSE), t,
                         IF SchemeOf(base[1]) \in SpecialSchemes
                         THEN "SpecialNotFile" ELSE "NotSpecial", base[1])))

\* a '#'-led input was parsed against a cannot-be-a-base base
C11_Witness ==
    /\ pc = "parsed"
    /\ ~InputHasScheme
    /\ base # None
    /\ CannotBeABase(base[1])
    /\ CleanInput # <<>> /\ CleanInput[1] = HASH
    /\ result.ok

(***************************************************************************)
(* Vocabulary of the codec's properties.                                   *)
(***************************************************************************)
\* a byte that a set has encoded: a byte from 0x80 on, or a byte of the set
MustEncode(b, set) == b >= 128 \/ b \in set

\* the characters 0-9 A-F a-f
HexCharacters == (48..57) \cup (65..70) \cup (97..102)

\* the caller has encoded the bytes, decoded the text and reached its end
RoundTripDone == step = "decoded" /\ decoding = "encoded"

\* the bytes hold a '%' that the set leaves as it is, followed by two hex
\* digits that the set leaves as they are
RawTriple ==
    \E i \in 1..(Len(plain) - 2) :
        /\ plain[i] = PERCENT /\ ~MustEncode(PERCENT, policy)
        /\ plain[i + 1] \in HexCharacters /\ ~MustEncode(plain[i + 1], policy)
        /\ plain[i + 2] \in HexCharacters /\ ~MustEncode(plain[i + 2], policy)

\* C12 as stated: for every byte sequence and every set, decoding the
\* encoding gives the byte sequence back
C12_RoundTrip == RoundTripDone => decoded = plain

\* C12: decoding the encoding gives the byte sequence back exactly when the
\* bytes hold no '%' followed by two hex digits that the set leaves all
\* three unencoded; in particular for every set that holds '%'
C12_RoundTripUnlessRawTriple ==
    RoundTripDone => (decoded = plain <=> ~RawTriple)

\* bytes with a '%' and a byte from 0x80 on came back from a set with '%'
C12_Witness ==
    /\ RoundTripDone
    /\ PERCENT \in policy
    /\ \E i \in 1..Len(plain) : plain[i] = PERCENT
    /\ \E i \in 1..Len(plain) : plain[i] >= 128
    /\ decoded = plain

\* the uppercase hex digit of a number below 16, and the three characters
\* '%' and the two uppercase hex digits of a byte
UpperHex(n) == IF n < 10 THEN 48 + n ELSE 65 + (n - 10)

TripleOf(b) == <<PERCENT, UpperHex(b \div 16), UpperHex(b % 16)>>

\* a text with its hex letters a-f in uppercase
FoldHexCase(s) == [i \in 1..Len(s) |-> IF s[i] \in 97..102 THEN s[i] - 32 ELSE s[i]]

\* the second set holds a character of a triple that the first set wrote
TripleReencoded ==
    \E i \in 1..Len(plain) :
        /\ MustEncode(plain[i], policy)
        /\ \E k \in 1..3 : MustEncode(TripleOf(plain[i])[k], again.ascii_set)

\* C13 as stated: for sets S1 within S2, encoding under S2 the text encoded
\* under S1 equals encoding the bytes under S2, the case of hex digits apart
C13_SupersetIdempotent ==
    step = "reencoded" => FoldHexCase(again.twice) = FoldHexCase(again.once)

\* C13: for sets S1 within S2, encoding under S2 the text encoded under S1
\* equals encoding the bytes under S2 exactly when S2 holds none of the
\* characters of the triples S1 wrote: neither '%' nor one of their hex
\* digits
C13_SupersetIdempotentUnlessTriple ==
    step = "reencoded" =>
        (FoldHexCase(again.twice) = FoldHexCase(again.once) <=> ~TripleReencoded)

\* the first set encoded a byte, a larger set encoded another one, and the
\* two texts are equal
C13_Witness ==
    /\ step = "reencoded"
    /\ policy # again.ascii_set
    /\ \E i \in 1..Len(plain) : MustEncode(plain[i], policy)
    /\ \E i \in 1..Len(plain) :
          ~MustEncode(plain[i], policy) /\ MustEncode(plain[i], again.ascii_set)
    /\ again.twice = again.once

\* what the specification says of the encoding of a byte sequence: byte by
\* byte, the triple of a byte that must be encoded and the byte itself
\* otherwise
RECURSIVE EncodingOf(_, _)
EncodingOf(bytes, set) ==
    IF bytes = <<>> THEN <<>>
    ELSE (IF MustEncode(Head(bytes), set) THEN TripleOf(Head(bytes)) ELSE <<Head(bytes)>>)
         \o EncodingOf(Tail(bytes), set)

\* and of its items: one triple for each byte that must be encoded, one item
\* for each maximal run of the other bytes
RECURSIVE ItemsOf(_, _)
ItemsOf(bytes, set) ==
    IF bytes = <<>> THEN <<>>
    ELSE IF MustEncode(Head(bytes), set)
    THEN <<TripleOf(Head(bytes))>> \o ItemsOf(Tail(bytes), set)
    ELSE LET n == CHOOSE k \in 1..Len(bytes) :
                      /\ \A j \in 1..k : ~MustEncode(bytes[j], set)
                      /\ (k = Len(bytes) \/ MustEncode(bytes[k + 1], set))
         IN  <<SubSeq(bytes, 1, n)>> \o ItemsOf(SubSeq(bytes, n + 1, Len(bytes)), set)

\* C14: the items percent_encode yields are, in order, one "%HH" triple
\* (uppercase hex, equal to percent_encode_byte of the byte) for each byte
\* from 0x80 on or in the set, and one item for each maximal run of the other
\* bytes, so that no two runs follow each other; their concatenation is the
\* byte-by-byte encoding
C14_Items ==
    /\ step = "encoding" =>
          /\ Len(yielded) <= Len(ItemsOf(plain, policy))
          /\ yielded = SubSeq(ItemsOf(plain, policy), 1, Len(yielded))
    /\ step = "encoded" =>
          /\ yielded = ItemsOf(plain, policy)
          /\ text = EncodingOf(plain, policy)
          /\ \A b \in 0..255 : percent_encode_byte(b) = TripleOf(b)

\* the encoder has yielded a run of two bytes and a triple and has ended
C14_Witness ==
    /\ step = "encoded"
    /\ \E i \in 1..Len(yielded) : \E j \in 1..Len(plain) :
          MustEncode(plain[j], policy) /\ yielded[i] = TripleOf(plain[j])
    /\ \E i \in 1..Len(yielded) :
          Len(yielded[i]) = 2 /\ \A k \in 1..2 : ~MustEncode(yielded[i][k], policy)

\* the number a hex digit of either case writes
HexNumber(c) ==
    IF c \in 48..57 THEN c - 48
    ELSE IF c \in 65..70 THEN c - 65 + 10
    ELSE c - 97 + 10

\* the bytes left start with '%' and two hex digits
AtTriple(bytes) ==
    /\ Len(bytes) >= 3
    /\ bytes[1] = PERCENT
    /\ bytes[2] \in HexCharacters
    /\ bytes[3] \in HexCharacters

\* C15: a step of percent_decode never fails: at the end of the bytes it
\* ends; at '%' followed by two hex digits of either case it yields
\* (hi << 4) | lo and consumes three bytes; anywhere else, a trailing '%' or
\* "%X" and a '%' before a non-hex byte included, it yields the current byte
\* as it is and consumes one
C15_DecodeSteps ==
    [][ step = "decoding" =>
          IF decoder = <<>>
          THEN step' = "decoded" /\ decoded' = decoded /\ decoder' = <<>>
          ELSE IF AtTriple(decoder)
          THEN /\ decoded' = Append(decoded,
                                 16 * HexNumber(decoder[2]) + HexNumber(decoder[3]))
               /\ decoder' = SubSeq(decoder, 4, Len(decoder))
               /\ step' = "decoding"
          ELSE /\ decoded' = Append(decoded, decoder[1])
               /\ decoder' = Tail(decoder)
               /\ step' = "decoding" ]_vars

\* "%4f%" was decoded into "O%": a triple with a lowercase digit, then a
\* trailing '%'
C15_Witness ==
    /\ step = "decoded"
    /\ decoding = "plain"
    /\ plain = <<PERCENT, 52, 102, PERCENT>>
    /\ decoded = <<79, PERCENT>>

\* the caller has materialized percent_encode(plain, policy)
CowEncoded == step = "cow_encoded"

\* some byte of the plain bytes must be encoded under the policy
SomeByteEncoded == \E i \in 1..Len(plain) : MustEncode(plain[i], policy)

\* C16 as stated: the value is borrowed exactly when no byte must be
\* encoded, and owned in every other case, a single encoded byte included
C16_BorrowedIffNothingEncoded ==
    CowEncoded => (cow.cow = "Borrowed" <=> ~SomeByteEncoded)

\* C16, amended: the value is borrowed exactly when no byte must be encoded
\* or the bytes are one single byte that is encoded (whose triple is borrowed
\* from the static table), owned in every other case, and always holds the
\* encoding
C16_BorrowedIffOneItem ==
    CowEncoded =>
        /\ cow.cow \in {"Borrowed", "Owned"}
        /\ cow.cow = "Borrowed" <=> (~SomeByteEncoded \/ Len(plain) = 1)
        /\ cow.value = EncodingOf(plain, policy)

\* a space and a letter were encoded into an owned "%20A" where the space
\* must be encoded
C16_Witness ==
    /\ CowEncoded
    /\ plain = <<SPACE, 65>>
    /\ SPACE \in policy
    /\ cow = [cow |-> "Owned", value |-> <<PERCENT, 50, 48, 65>>]

\* the caller has materialized percent_decode(plain)
CowDecoded == step = "cow_decoded"

\* the bytes the lazy iterator yields, one next() after the other
RECURSIVE LazyDecode(_)
LazyDecode(bytes) ==
    IF PercentDecode_next(bytes).item = None THEN <<>>
    ELSE <<PercentDecode_next(bytes).item[1]>>
         \o LazyDecode(PercentDecode_next(bytes).bytes)

\* some '%' of the bytes is followed by two hex digits
SomeTriple(bytes) ==
    \E i \in 1..Len(bytes) : AtTriple(SubSeq(bytes, i, Len(bytes)))

\* C17: the value made from percent_decode(B) is a borrowed view equal to B
\* exactly when no '%' of B is followed by two hex digits, and otherwise an
\* owned vector equal to what the lazy iterator yields for B
C17_DecodeCow ==
    CowDecoded =>
        IF SomeTriple(plain)
        THEN cow = [cow |-> "Owned", value |-> LazyDecode(plain)]
        ELSE cow = [cow |-> "Borrowed", value |-> plain]

\* "%%4A" was decoded into an owned "%J": a '%' before a non-hex byte comes
\* before the first triple
C17_Witness ==
    /\ CowDecoded
    /\ plain = <<PERCENT, PERCENT, 52, 65>>
    /\ cow = [cow |-> "Owned", value |-> <<PERCENT, 74>>]

\* a / b rounded up
CeilDiv(a, b) == (a + b - 1) \div b

\* how many bytes a decoder still yields from the bytes left
RECURSIVE StillDecoded(_)
StillDecoded(bytes) ==
    IF bytes = <<>> THEN 0
    ELSE IF AtTriple(bytes) THEN 1 + StillDecoded(SubSeq(bytes, 4, Len(bytes)))
    ELSE 1 + StillDecoded(Tail(bytes))

\* the encoder's hint, for its bytes left: lower bound 1 (0 at the end),
\* upper bound the number of bytes left, the items still yielded in between
EncoderHintSound ==
    step \in {"encoding", "encoded"} =>
        LET n == Len(encoder.bytes)
            items == Len(ItemsOf(encoder.bytes, encoder.ascii_set))
        IN  /\ hint.lower = (IF n = 0 THEN 0 ELSE 1)
            /\ hint.upper = Some(n)
            /\ hint.lower <= items /\ items <= n

\* the decoder's hint, for its bytes left, with the lower bound
\* ceil((n + more) / 3)
DecoderHintSound(more) ==
    step \in {"decoding", "decoded"} =>
        LET n == Len(decoder)
            items == StillDecoded(decoder)
        IN  /\ hint.lower = CeilDiv(n + more, 3)
            /\ hint.upper = Some(n)
            /\ hint.lower <= items /\ items <= n

\* C18 as stated: the decoder's lower bound is ceil((n+2)/3)
C18_SizeHints ==
    EncoderHintSound /\ DecoderHintSound(2)

\* C18, amended: with n bytes left the encoder reports lower bound 1 (0 when
\* n = 0) and upper bound n, the decoder reports lower bound (n+2)/3 rounded
\* down, which is ceil(n/3), and upper bound n, and the number of items the
\* iterator still yields lies between the two bounds
C18_SizeHintsRoundedDown ==
    EncoderHintSound /\ DecoderHintSound(0)

\* a decoder before "%4A": three bytes left, lower bound 1, one byte yielded
C18_Witness ==
    /\ step = "decoding"
    /\ decoder = <<PERCENT, 52, 65>>
    /\ hint = [lower |-> 1, upper |-> Some(3)]
    /\ StillDecoded(decoder) = 1

\* the same input parsed against the same base with no observer installed
Unobserved == parse_url(base, input, FALSE)

\* C19: violations are observational: parse_url returns the same record, or
\* the same fatal error, and fails the same assertions whether an observer
\* is installed or not, so that no violation turns a successful parse into a
\* failure; without an observer nothing is reported
C19_Observational ==
    pc \in {"parsed", "reparsed"} =>
        /\ SameOutcome(Unobserved, result)
        /\ Unobserved.panics = result.panics
        /\ Unobserved.debug = result.debug
        /\ Unobserved.viol = {}

\* a parse that reported a violation to its observer and succeeded
C19_Witness ==
    /\ pc = "parsed"
    /\ result.ok
    /\ result.viol # {}
    /\ Unobserved.ok

(***************************************************************************)
(* Vocabulary of the empty host property.                                  *)
(***************************************************************************)
\* the schemes http https ws wss ftp
HostedSchemes == SpecialSchemes \ {<<102, 105, 108, 101>>}

\* a text without its leading '/' and '\'
RECURSIVE DropSlashes(_)
DropSlashes(s) ==
    IF s # <<>> /\ Head(s) \in {SLASH, BACKSLASH} THEN DropSlashes(Tail(s)) ELSE s

\* the authority texts of the input, none or one: for an input with one of
\* the five schemes, what follows "scheme:" and all its slashes, unless it is
\* read relative to a base of the same scheme (fewer than two slashes); for
\* an input without a scheme, against a base of one of the five schemes, what
\* follows its leading "//", or all its leading slashes when they are two or
\* more and not spelled "//"
AuthorityTexts ==
    LET t == CleanInput
    IN  IF InputHasScheme
        THEN LET i      == CHOOSE k \in 1..Len(t) :
                               t[k] = COLON /\ \A j \in 1..(k - 1) : t[j] # COLON
                 scheme == [j \in 1..(i - 1) |->
                               IF t[j] \in UpperAlpha THEN t[j] + 32 ELSE t[j]]
                 rest   == SubSeq(t, i + 1, Len(t))
             IN  IF scheme \notin HostedSchemes THEN {}
                 ELSE IF /\ base # None
                         /\ SchemeOf(base[1]) = scheme
                         /\ Len(rest) - Len(DropSlashes(rest)) < 2
                 THEN {}
                 ELSE {DropSlashes(rest)}
        ELSE IF base = None THEN {}
        ELSE IF SchemeOf(base[1]) \notin HostedSchemes THEN {}
        ELSE IF Len(t) - Len(DropSlashes(t)) < 2 THEN {}
        ELSE IF SubSeq(t, 1, 2) = <<SLASH, SLASH>> THEN {SubSeq(t, 3, Len(t))}
        ELSE {DropSlashes(t)}

\* the host substring of an authority text: after the userinfo, which ends
\* at the last '@' before the first '/', '\', '?' or '#', and up to the
\* first ':' or the end of the authority
HostText(a) ==
    LET ends  == {k \in 1..Len(a) : a[k] \in {SLASH, BACKSLASH, QUESTION, HASH}}
        end   == IF ends = {} THEN Len(a) + 1
                 ELSE CHOOSE k \in ends : \A j \in ends : k <= j
        ats   == {k \in 1..(end - 1) : a[k] = AT}
        from  == IF ats = {} THEN 1
                 ELSE 1 + (CHOOSE k \in ats : \A j \in ats : j <= k)
        stops == {k \in from..(end - 1) : a[k] = COLON}
        stop  == IF stops = {} THEN end
                 ELSE CHOOSE k \in stops : \A j \in stops : k <= j
    IN  SubSeq(a, from, stop - 1)

\* C20: for the schemes http, https, ws, wss and ftp an empty host is fatal:
\* when the host substring after the authority slashes and any userinfo is
\* empty the parse is Err(EmptyHost), and every record parsed with one of
\* these schemes has host_end > host_start
C20_EmptyHostFatal ==
    /\ pc \in {"parsed", "reparsed"} =>
           \A a \in AuthorityTexts :
               HostText(a) = <<>> => (~result.ok /\ result.err = "EmptyHost")
    /\ (Parsed /\ SchemeOf(U) \in HostedSchemes) => U.host_end > U.host_start

\* "http://" with an '@' and nothing after the userinfo was refused
C20_Witness ==
    /\ pc = "parsed"
    /\ base = None
    /\ \E a \in AuthorityTexts : AT \in {a[k] : k \in 1..Len(a)} /\ HostText(a) = <<>>
    /\ ~result.ok
    /\ result.err = "EmptyHost"

(***************************************************************************)
(* Vocabulary of the userinfo properties.                                  *)
(***************************************************************************)
\* the authority texts of the input, under any scheme: those of the five
\* schemes, where '\' ends the authority, and for an input with a scheme that
\* is not special what follows "scheme://", where '\' does not
Authorities ==
    LET t == CleanInput
    IN  {[text |-> a, special |-> TRUE] : a \in AuthorityTexts}
        \cup
        (IF ~InputHasScheme THEN {}
         ELSE LET i      == CHOOSE k \in 1..Len(t) :
                                t[k] = COLON /\ \A j \in 1..(k - 1) : t[j] # COLON
                  scheme == [j \in 1..(i - 1) |->
                                IF t[j] \in UpperAlpha THEN t[j] + 32 ELSE t[j]]
                  rest   == SubSeq(t, i + 1, Len(t))
              IN  IF scheme \in SpecialSchemes THEN {}
                  ELSE IF Len(rest) >= 2 /\ SubSeq(rest, 1, 2) = <<SLASH, SLASH>>
                  THEN {[text |-> SubSeq(rest, 3, Len(rest)), special |-> FALSE]}
                  ELSE {})

\* where an authority ends: before its first '/', '?' or '#', or '\' when
\* the scheme is special
AuthorityEnd(a) ==
    LET ends == {k \in 1..Len(a.text) :
                    a.text[k] \in {SLASH, QUESTION, HASH}
                                  \cup (IF a.special THEN {BACKSLASH} ELSE {})}
    IN  IF ends = {} THEN Len(a.text) + 1
        ELSE CHOOSE k \in ends : \A j \in ends : k <= j

\* the last '@' of an authority, 0 when it has none
LastAt(a) ==
    LET ats == {k \in 1..(AuthorityEnd(a) - 1) : a.text[k] = AT}
    IN  IF ats = {} THEN 0 ELSE CHOOSE k \in ats : \A j \in ats : j <= k

\* the userinfo of an authority and what follows it up to the first ':'
UserinfoText(a) == SubSeq(a.text, 1, LastAt(a) - 1)
HostAfterUserinfo(a) ==
    LET stops == {k \in (LastAt(a) + 1)..(AuthorityEnd(a) - 1) : a.text[k] = COLON}
        stop  == IF stops = {} THEN AuthorityEnd(a)
                 ELSE CHOOSE k \in stops : \A j \in stops : k <= j
    IN  SubSeq(a.text, LastAt(a) + 1, stop - 1)

\* C21: in authority parsing, for any scheme, an '@' before the first
\* authority terminator followed by an empty host is Err(EmptyHost), whether
\* the userinfo before the '@' is empty or not
C21_UserinfoThenEmptyHost ==
    pc \in {"parsed", "reparsed"} =>
        \A a \in Authorities :
            (LastAt(a) > 0 /\ HostAfterUserinfo(a) = <<>>)
                => (~result.ok /\ result.err = "EmptyHost")

(***************************************************************************)
(* Vocabulary of the port parser's property.  In the family "port" the     *)
(* input is scheme://h: followed by the tokens typed, none of which holds  *)
(* a ':'.                                                                  *)
(***************************************************************************)
\* what follows the last ':' of the input as the parser reads it
AfterPortColon ==
    LET t  == CleanInput
        cs == {i \in 1..Len(t) : t[i] = COLON}
        i  == CHOOSE k \in cs : \A j \in cs : j <= k
    IN  SubSeq(t, i + 1, Len(t))

PortDigits == DigitPrefix(AfterPortColon)

\* the value of the digits, read digit by digit and held at 65536 once it
\* has exceeded 65535
RECURSIVE PortValue(_)
PortValue(d) ==
    IF d = <<>> THEN 0
    ELSE LET v == 10 * PortValue(SubSeq(d, 1, Len(d) - 1)) + (d[Len(d)] - 48)
         IN  IF v > 65535 THEN 65536 ELSE v

\* the digits exceed 65535, or the character after them is not in ends
PortRefused(ends) ==
    \/ PortValue(PortDigits) > 65535
    \/ /\ Len(PortDigits) < Len(AfterPortColon)
       /\ AfterPortColon[Len(PortDigits) + 1] \notin ends

PortParsed == family = "port" /\ pc \in {"parsed", "reparsed"}

\* C22 as stated: the port is refused exactly when its value exceeds 65535
\* or a character that is neither a digit nor '/', '?' or '#' is met, and a
\* port that is returned is the value of the digits
C22_PortRefusedUnlessSlashQueryHash ==
    PortParsed =>
        /\ (~result.ok /\ result.err = "InvalidPort")
               <=> PortRefused({SLASH, QUESTION, HASH})
        /\ ~PortRefused({SLASH, QUESTION, HASH}) =>
               (result.ok /\ U.port \in {None, Some(PortValue(PortDigits))})

\* C22, amended: the port is refused with Err(InvalidPort) exactly when its
\* value exceeds 65535 or a character that is neither a digit nor '/', '\',
\* '?' or '#' is met; otherwise the parse succeeds, with the value of the
\* digits as its port unless there are no digits or the value is the
\* scheme's default port
C22_PortRefusedUnlessTerminator ==
    PortParsed =>
        IF PortRefused({SLASH, BACKSLASH, QUESTION, HASH})
        THEN ~result.ok /\ result.err = "InvalidPort"
        ELSE /\ result.ok
             /\ U.port = (IF PortDigits = <<>>
                             \/ Some(PortValue(PortDigits))
                                    = SpecifiedDefaultPort(SchemeOf(U))
                          THEN None
                          ELSE Some(PortValue(PortDigits)))

\* "a://h:" with 21 and a '\' was parsed with port 21
C22_Witness ==
    /\ PortParsed
    /\ AfterPortColon = <<50, 49, BACKSLASH>>
    /\ result.ok
    /\ U.port = Some(21)

(***************************************************************************)
(* Vocabulary of the "/." property.                                        *)
(***************************************************************************)
\* a record of a scheme that is not special, without an authority: its host
\* starts right after "scheme:"
NoAuthority(u) ==
    /\ SchemeOf(u) \notin SpecialSchemes
    /\ u.host_start = u.scheme_end + 1

StartsWithTwoSlashes(s) == Len(s) >= 2 /\ s[1] = SLASH /\ s[2] = SLASH

\* C23: a record of a scheme that is not special and without an authority
\* has "/." between "scheme:" and its path exactly when the path begins with
\* "//", with path_start = scheme_end + 3, and otherwise path_start =
\* scheme_end + 1; what follows "scheme:" never begins with "//", also after
\* a relative resolution that adds or removes the leading empty segment
C23_SlashDotBeforeEmptySegment ==
    (Parsed /\ NoAuthority(U)) =>
        LET after == SubSeq(U.serialization, U.scheme_end + 2, Len(U.serialization))
        IN  /\ IF StartsWithTwoSlashes(PathOf(U))
               THEN /\ U.path_start = U.scheme_end + 3
                    /\ SubSeq(after, 1, 2) = <<SLASH, DOT>>
               ELSE U.path_start = U.scheme_end + 1
            /\ ~StartsWithTwoSlashes(after)

\* a resolution against a base whose path does not begin with "//" gave a
\* path that does, behind "/."
C23_Witness ==
    /\ Parsed
    /\ NoAuthority(U)
    /\ base # None
    /\ NoAuthority(base[1])
    /\ ~StartsWithTwoSlashes(PathOf(base[1]))
    /\ StartsWithTwoSlashes(PathOf(U))
    /\ U.path_start = U.scheme_end + 3

(***************************************************************************)
(* Vocabulary of the Backslash violation property.                         *)
(***************************************************************************)
\* the input as the parser reads it holds a '\' before its query and its
\* fragment: with a special scheme every such '\' is read as '/'
BackslashReadAsSlash ==
    LET t    == CleanInput
        ends == {k \in 1..Len(t) : t[k] \in {QUESTION, HASH}}
        end  == IF ends = {} THEN Len(t) + 1
                ELSE CHOOSE k \in ends : \A j \in ends : k <= j
    IN  \E k \in 1..(end - 1) : t[k] = BACKSLASH

\* C24: when the scheme is special and an observer is installed, a Backslash
\* violation is reported when the input holds a '\' that the parser reads as
\* '/': among the slashes after the scheme's colon, at the start of a
\* relative reference, at the start of the path or between its segments
C24_BackslashReported ==
    (Parsed /\ SchemeOf(U) \in SpecialSchemes /\ BackslashReadAsSlash)
        => "Backslash" \in result.viol

\* the username of an authority's userinfo, up to its first ':', and the
\* password after it
UsernameText(a) ==
    LET ui == UserinfoText(a)
        cs == {k \in 1..Len(ui) : ui[k] = COLON}
    IN  IF cs = {} THEN ui
        ELSE SubSeq(ui, 1, (CHOOSE k \in cs : \A j \in cs : k <= j) - 1)

PasswordText(a) ==
    LET ui == UserinfoText(a)
        cs == {k \in 1..Len(ui) : ui[k] = COLON}
    IN  IF cs = {} THEN <<>>
        ELSE SubSeq(ui, (CHOOSE k \in cs : \A j \in cs : k <= j) + 1, Len(ui))

\* C25: in the serialized userinfo the ':' between username and password is
\* written only when the password is not empty and the '@' exactly when the
\* username or the password is not empty; username_end is the offset just
\* before that ':', or before the '@' when there is no ':'
C25_UserinfoSerialized ==
    Parsed =>
        \A a \in Authorities :
            LastAt(a) > 0 =>
                LET user == utf8_percent_encode(UsernameText(a), USERINFO)
                    pass == utf8_percent_encode(PasswordText(a), USERINFO)
                IN  /\ SubSeq(U.serialization, U.scheme_end + 4, U.host_start)
                         = user
                           \o (IF pass # <<>> THEN <<COLON>> \o pass ELSE <<>>)
                           \o (IF user # <<>> \/ pass # <<>> THEN <<AT>> ELSE <<>>)
                    /\ U.username_end = U.scheme_end + 3 + Len(user)

\* "http://u:@u" was parsed: a username, an empty password, no ':' written
C25_Witness ==
    /\ Parsed
    /\ CleanInput = <<104, 116, 116, 112, 58, 47, 47, 117, 58, 64, 117>>
    /\ U.serialization = <<104, 116, 116, 112, 58, 47, 47, 117, 64, 117, 47>>
    /\ U.username_end = 8

\* C26: no parse panics: the assertions on the ":/." and "://" prefixes in
\* with_query_and_fragment, the panic! of parse_query_and_fragment, the
\* debug assertion before a ".." segment, the unwrap in pop_path and the
\* slice indexes of parse_path hold for every input and base
C26_NoPanic ==
    pc \in {"parsed", "reparsed"} =>
        /\ result.panics = {}
        /\ result.debug = {}
        /\ pc = "reparsed" => (reparsed.panics = {} /\ reparsed.debug = {})

\* ".." was resolved against a base of the form a:/.//x: the path was popped
\* and the assertions on the prefixes were run
C26_Witness ==
    /\ pc = "parsed"
    /\ base # None
    /\ NoAuthority(base[1])
    /\ StartsWithTwoSlashes(PathOf(base[1]))
    /\ CleanInput = <<DOT, DOT>>
    /\ result.ok
    /\ result.panics = {}
    /\ result.debug = {}

(***************************************************************************)
(* Vocabulary of the file properties.                                      *)
(***************************************************************************)
FileScheme == <<102, 105, 108, 101>>

\* the input is read as a file URL: it has the scheme file, or it has no
\* scheme and the base is a file URL
ReadAsFile ==
    LET t == CleanInput
    IN  IF InputHasScheme
        THEN Len(t) >= 5
             /\ [j \in 1..4 |-> IF t[j] \in UpperAlpha THEN t[j] + 32 ELSE t[j]] = FileScheme
             /\ t[5] = COLON
        ELSE base # None /\ SchemeOf(base[1]) = FileScheme

\* what a file input holds after its scheme
AfterFileScheme ==
    IF InputHasScheme THEN SubSeq(CleanInput, 6, Len(CleanInput)) ELSE CleanInput

\* a text begins with a segment that is a drive letter written with mark:
\* a letter, the mark, then the end, '/', '\', '?' or '#'
DriveSegmentFirst(s, mark) ==
    /\ Len(s) >= 2
    /\ s[1] \in UpperAlpha \cup LowerAlpha
    /\ s[2] = mark
    /\ (Len(s) = 2 \/ s[3] \in {SLASH, BACKSLASH, QUESTION, HASH})

\* C27 as stated: when the first path segment of a file input is a drive
\* letter written with '|', in any of the forms file:X|, file:/X|, file://X|
\* and file:///X| and without a scheme against a file base, the path returned
\* begins with that letter and ':'; and no file URL returned has a path
\* whose first segment is a letter and '|'
C27_DriveLetterRewritten ==
    /\ (pc \in {"parsed", "reparsed"} /\ ReadAsFile
            /\ DriveSegmentFirst(DropSlashes(AfterFileScheme), PIPE)
            /\ Len(AfterFileScheme) - Len(DropSlashes(AfterFileScheme)) <= 3)
         => /\ result.ok
            /\ PathOf(U) # <<>>
            /\ DriveSegmentFirst(Tail(PathOf(U)), COLON)
            /\ PathOf(U)[2] = DropSlashes(AfterFileScheme)[1]
    /\ (Parsed /\ SchemeOf(U) = FileScheme /\ PathOf(U) # <<>>)
         => ~DriveSegmentFirst(Tail(PathOf(U)), PIPE)

\* a path that begins with a normalized drive letter segment and a '/':
\* "/X:/"
DrivePath(p) ==
    /\ Len(p) >= 4
    /\ p[1] = SLASH
    /\ p[2] \in UpperAlpha \cup LowerAlpha
    /\ p[3] = COLON
    /\ p[4] = SLASH

\* the input holds a ".." path segment, spelled with dots or
\* percent-encoded: at its start, after its scheme's ':' or after a '/' or
\* '\' that does not end a pair of slashes (what follows a pair is a host)
InputHasDoubleDot ==
    \E i \in 1..Len(CleanInput), j \in 1..Len(CleanInput) :
        /\ i <= j
        /\ SubSeq(CleanInput, i, j) \in DoubleDotSegments
        /\ \/ i = 1
           \/ CleanInput[i - 1] = COLON
           \/ /\ CleanInput[i - 1] \in {SLASH, BACKSLASH}
              /\ (i = 2 \/ CleanInput[i - 2] \notin {SLASH, BACKSLASH})
        /\ (j = Len(CleanInput) \/ CleanInput[j + 1] \in {SLASH, BACKSLASH, QUESTION, HASH})

\* the input is a relative reference that keeps the base's authority and
\* the start of its path: no scheme, no leading '/' or '\', no drive letter
RelativeToBasePath ==
    /\ base # None
    /\ ~InputHasScheme
    /\ CleanInput # <<>>
    /\ CleanInput[1] \notin {SLASH, BACKSLASH}
    /\ ~DriveSegmentFirst(CleanInput, COLON)
    /\ ~DriveSegmentFirst(CleanInput, PIPE)

\* C28: ".." segments never remove the root '/' of the path, nor a
\* normalized drive letter that is the first segment of a file path: with
\* ".." segments in the input, applied to the input's own path or to the
\* base's, the path returned still begins with '/', and a file path that
\* began with "/X:/" still begins with "/X:/"
C28_DotDotKeepsRootAndDrive ==
    (Parsed /\ InputHasDoubleDot /\ ~CannotBeABase(U)) =>
        /\ PathOf(U) # <<>>
        /\ PathOf(U)[1] = SLASH
        /\ (RelativeToBasePath /\ SchemeOf(base[1]) = FileScheme
                /\ DrivePath(PathOf(base[1])))
             => /\ DrivePath(PathOf(U))
                /\ PathOf(U)[2] = PathOf(base[1])[2]
        /\ (InputHasScheme /\ ReadAsFile
                /\ DriveSegmentFirst(DropSlashes(AfterFileScheme), COLON)
                /\ Len(DropSlashes(AfterFileScheme)) >= 3)
             => /\ DrivePath(PathOf(U))
                /\ PathOf(U)[2] = DropSlashes(AfterFileScheme)[1]

\* "../.." was resolved against file:///C:/b/c: the drive letter and the
\* root are left
C28_Witness ==
    /\ Parsed
    /\ base # None
    /\ DrivePath(PathOf(base[1]))
    /\ CleanInput = <<DOT, DOT, SLASH, DOT, DOT>>
    /\ PathOf(U) = SubSeq(PathOf(base[1]), 1, 4)

(***************************************************************************)
(* Vocabulary of the file host properties.                                 *)
(***************************************************************************)
\* the number of '/' and '\' a file input holds right after its scheme
LeadingSlashes == Len(AfterFileScheme) - Len(DropSlashes(AfterFileScheme))

\* the 1-based position in s of its first character of set cs, or
\* Len(s) + 1 when it has none
FirstOf(s, cs) ==
    LET ks == {k \in 1..Len(s) : s[k] \in cs}
    IN  IF ks = {} THEN Len(s) + 1 ELSE CHOOSE k \in ks : \A j \in ks : k <= j

\* the host text of an input 'file://HOST...': what follows the two slashes
\* up to the first '/', '\', '?' or '#'
FileHostText ==
    LET a == DropSlashes(AfterFileScheme)
    IN  SubSeq(a, 1, FirstOf(a, {SLASH, BACKSLASH, QUESTION, HASH}) - 1)

\* what follows the host text of an input 'file://HOST...'
AfterFileHost ==
    LET a == DropSlashes(AfterFileScheme)
    IN  SubSeq(a, Len(FileHostText) + 1, Len(a))

\* the input is 'file://HOST/X:...' or 'file://HOST/X|...': a file scheme,
\* two slashes, a host text that is not empty and not itself a drive letter,
\* one slash, and a first path segment that is a drive letter
FileHostThenDrive ==
    /\ InputHasScheme
    /\ ReadAsFile
    /\ LeadingSlashes = 2
    /\ FileHostText # <<>>
    /\ ~DriveSegmentFirst(FileHostText, COLON)
    /\ ~DriveSegmentFirst(FileHostText, PIPE)
    /\ AfterFileHost # <<>>
    /\ Head(AfterFileHost) \in {SLASH, BACKSLASH}
    /\ \/ DriveSegmentFirst(Tail(AfterFileHost), COLON)
       \/ DriveSegmentFirst(Tail(AfterFileHost), PIPE)

\* the offset of the first '?' of a serialization, if it has one
QuestionOffset(s) ==
    IF FirstOf(s, {QUESTION}) > Len(s) THEN None ELSE Some(FirstOf(s, {QUESTION}) - 1)

\* C29: an input 'file://HOST/X:...' that is accepted is returned as
\* 'file:///X:...': the host bytes are removed, host is None, host_start,
\* host_end and path_start are 7, the query offset is the offset of '?' in
\* the shortened serialization, and FileWithHostAndWindowsDrive is reported
C29_FileHostRemovedBeforeDrive ==
    (Parsed /\ pc = "parsed" /\ FileHostThenDrive) =>
        /\ Len(U.serialization) >= 10
        /\ SubSeq(U.serialization, 1, 10)
               = FileScheme \o <<COLON, SLASH, SLASH, SLASH,
                                 Tail(AfterFileHost)[1], COLON>>
        /\ U.host = HostInternalNone
        /\ U.host_start = 7
        /\ U.host_end = 7
        /\ U.path_start = 7
        /\ U.username_end = 7
        /\ U.query_start = QuestionOffset(U.serialization)
        /\ QuestionOffset(AfterFileHost) # None => U.query_start # None
        /\ "FileWithHostAndWindowsDrive" \in result.viol

\* "file://h/C:?" was parsed to "file:///C:?" with the query at offset 10
C29_Witness ==
    /\ Parsed
    /\ pc = "parsed"
    /\ FileHostThenDrive
    /\ FileHostText = <<104>>
    /\ U.serialization = FileScheme \o <<COLON, SLASH, SLASH, SLASH, 67, COLON, QUESTION>>
    /\ U.query_start = Some(10)

(***************************************************************************)
(* Vocabulary of the single-slash file property.                           *)
(***************************************************************************)
\* the file URL the parser is given as base of a file input, if any
FileBase ==
    IF base # None /\ SchemeOf(base[1]) = FileScheme THEN base ELSE None

\* the result of parsing the input alone: under the scheme file and without
\* any base
ParsedAlone ==
    parse_url(None,
              IF InputHasScheme THEN CleanInput ELSE FileScheme \o <<COLON>> \o CleanInput,
              TRUE)

\* a file input that begins, after its scheme if it has one, with exactly
\* one '/' or '\' was accepted
SingleSlashFileParsed ==
    /\ Parsed
    /\ pc = "parsed"
    /\ ReadAsFile
    /\ LeadingSlashes = 1

\* the input holds a drive letter segment right after its single slash
DriveAfterSlash ==
    \/ DriveSegmentFirst(DropSlashes(AfterFileScheme), COLON)
    \/ DriveSegmentFirst(DropSlashes(AfterFileScheme), PIPE)

\* the first path segment of the file base is a normalized drive letter
FileBaseHasDrive ==
    LET p == PathOf(FileBase[1])
    IN  /\ Len(p) >= 3
        /\ p[1] = SLASH
        /\ p[2] \in UpperAlpha \cup LowerAlpha
        /\ p[3] = COLON
        /\ (Len(p) = 3 \/ p[4] = SLASH)

\* the host text of a URL
HostStr(u) == SubSeq(u.serialization, u.host_start + 1, u.host_end)

\* the URL has no host and its path starts at offset 7
HostlessAtSeven(u) ==
    /\ u.host = HostInternalNone
    /\ u.host_start = 7
    /\ u.host_end = 7
    /\ u.path_start = 7

\* C30 as stated: a file input with exactly one leading slash is returned
\* without host, with host_start, host_end and path_start 7, and with the
\* serialization the input alone gives, whatever the base
C30_SingleSlashIgnoresBase ==
    SingleSlashFileParsed =>
        /\ HostlessAtSeven(U)
        /\ ParsedAlone.ok
        /\ U.serialization = ParsedAlone.url.serialization

\* C30 amended: the result is the one the input alone gives when there is
\* no file base or the input holds a drive letter segment after its slash;
\* otherwise a file base whose first path segment is a normalized drive
\* letter gives that segment to the path, before the path of the input,
\* and any other file base with a host gives its host, the path starting
\* after it
C30_SingleSlashKeepsBaseDriveOrHost ==
    SingleSlashFileParsed =>
        /\ ParsedAlone.ok
        /\ U.host_start = 7
        /\ U.path_start = U.host_end
        /\ IF FileBase = None \/ DriveAfterSlash
                \/ (~FileBaseHasDrive /\ FileBase[1].host = HostInternalNone)
           THEN /\ HostlessAtSeven(U)
                /\ U.serialization = ParsedAlone.url.serialization
           ELSE IF FileBaseHasDrive
           THEN /\ HostlessAtSeven(U)
                /\ SubSeq(U.serialization, 1, 10)
                       = SubSeq(ParsedAlone.url.serialization, 1, 7)
                           \o SubSeq(PathOf(FileBase[1]), 1, 3)
                /\ U.query_start = QuestionOffset(U.serialization)
           ELSE /\ U.host = FileBase[1].host
                /\ U.host_end = 7 + Len(HostStr(FileBase[1]))
                /\ U.serialization
                       = SubSeq(ParsedAlone.url.serialization, 1, 7)
                           \o HostStr(FileBase[1])
                           \o SubSeq(ParsedAlone.url.serialization, 8,
                                     Len(ParsedAlone.url.serialization))
                /\ U.query_start = QuestionOffset(U.serialization)

\* "/h" was parsed against file://h/b/c to "file://h/h", the host of the base
\* kept and the path starting at offset 8
C30_Witness ==
    /\ SingleSlashFileParsed
    /\ FileBase # None
    /\ ~FileBaseHasDrive
    /\ CleanInput = <<SLASH, 104>>
    /\ U.host # HostInternalNone
    /\ U.path_start = 8
    /\ PathOf(U) = <<SLASH, 104>>

=============================================================================
